---- MODULE Spec2Model ----
(***************************************************************************)
(* Tile geometry loading of harp.gl: PhasedTileGeometryLoader              *)
(* (TileGeometryLoader.ts) and PhasedTileGeometryManager                   *)
(* (TileGeometryManager.ts).                                               *)
(*                                                                         *)
(* Every tile is a record that holds the fields of the Tile the loader     *)
(* reads and writes (decodedTile, dataSource.cacheable, hasGeometry), the  *)
(* private fields of its PhasedTileGeometryLoader (m_decodedTile,          *)
(* m_isFinished, m_geometryKindsLoaded, m_currentPhaseIndex) and the calls *)
(* the loader made to its collaborators (backend, removeCalls).            *)
(* SimpleTileGeometryLoader and SimpleTileGeometryManager have records of  *)
(* their own (simple), with the timers of their deferred builds.           *)
(***************************************************************************)
EXTENDS Integers, Sequences, FiniteSets, TLC

VARIABLES
    tiles,                  \* tile id -> tile and loader record
    m_loadPhaseDefinitions, \* PhaseList[]: sequence of sequences of kinds
    m_basicGeometryKinds,   \* Set<TileGeometryKind>
    run,                    \* tile id -> update() calls of an undisturbed run, -1: disturbed
    frame,                  \* the last operation and what it did
    simple,                 \* tile id -> tile and SimpleTileGeometryLoader record
    evaluator,              \* a StyleSet and the StyleSetEvaluator over it
    interp                  \* the last property conversion or evaluation

vars == <<tiles, m_loadPhaseDefinitions, m_basicGeometryKinds, run, frame, simple,
          evaluator, interp>>

----------------------------------------------------------------------------
(* Bounds *)

\* DecodedTiles delivered to one tile after construction
MaxDeliveries == 2

\* dispose() calls on one loader that retains a DecodedTile
MaxDisposes == 1

\* update() calls counted in one undisturbed run of a loader
MaxRun == 7

\* tiles of the manager
NumTiles == 6

\* tiles of the SimpleTileGeometryManager
NumSimpleTiles == 2

\* entries of an interpolation definition
MaxLen == 3

----------------------------------------------------------------------------
(* TileGeometryKind, phase lists *)

Undefined == 0

\* no StyleSetEvaluator, no property under evaluation
NoEvaluator == [op |-> "none"]

NoInterp == [op |-> "none"]

\* nextPhase() returns undefined past the last phase
NoPhase == -1

TileGeometryKind ==
    {"Background", "Ground", "Areas", "Lines", "Roads", "Buildings", "Labels", "Pois",
     "Details"}

DefaultPhases ==
    << <<"Background", "Ground", "Areas">>,
       <<"Lines", "Roads">>,
       <<"Buildings">>,
       <<"Labels", "Pois">>,
       <<"Details">> >>

DefaultBasicGeometryKinds == {"Background", "Ground", "Areas", "Lines"}

\* Phase lists a loader is constructed with: none, the three single-kind phases,
\* the manager's default, and one that lists a kind in two phases.
PhaseConfigs ==
    { << >>,
      << <<"Background">>, <<"Lines">>, <<"Buildings">> >>,
      DefaultPhases,
      << <<"Areas", "Lines">>, <<"Lines", "Labels">> >> }

BasicConfigs == { {}, {"Background"}, DefaultBasicGeometryKinds, {"Lines", "Details"} }

Range(s) == {s[i] : i \in 1..Len(s)}

\* the kinds of the first k phases
PhaseKinds(k) ==
    UNION {Range(m_loadPhaseDefinitions[i]) : i \in 1..k}

----------------------------------------------------------------------------
(* PhasedTileGeometryLoader *)

NewTile(isCacheable, decoded) ==
    [ cacheable             |-> isCacheable,
      decodedTile           |-> decoded,
      hasGeometry           |-> FALSE,
      hasLoader             |-> TRUE,
      delivered             |-> decoded,
      disposes              |-> 0,
      m_decodedTile         |-> Undefined,
      m_isFinished          |-> FALSE,
      m_geometryKindsLoaded |-> {},
      m_currentPhaseIndex   |-> 0,
      backend               |-> << >>,
      removeCalls           |-> 0,
      updateCalls           |-> 0,
      captures              |-> 0,
      ret                   |-> FALSE ]

currentPhase(s) == s.m_currentPhaseIndex

numberOfPhases == Len(m_loadPhaseDefinitions)

\* nextPhase() without its increment
NextPhaseIndex_stuck(s) == s.m_currentPhaseIndex

NextPhaseIndex(s) ==
    IF s.m_currentPhaseIndex < Len(m_loadPhaseDefinitions)
    THEN s.m_currentPhaseIndex + 1
    ELSE s.m_currentPhaseIndex

\* nextPhase(): the loader after the call; its return value is nextPhaseResult.
nextPhase(s) == [s EXCEPT !.m_currentPhaseIndex = NextPhaseIndex(s)]

nextPhaseResult(s) ==
    IF NextPhaseIndex(s) < Len(m_loadPhaseDefinitions) THEN NextPhaseIndex(s) ELSE NoPhase

\* basicGeometryLoaded that is satisfied by one loaded basic kind
basicGeometryLoaded_anyKind(s) ==
    \E kind \in m_basicGeometryKinds : kind \in s.m_geometryKindsLoaded

basicGeometryLoaded(s) ==
    \A kind \in m_basicGeometryKinds : kind \in s.m_geometryKindsLoaded

allGeometryLoaded(s) == currentPhase(s) >= Len(m_loadPhaseDefinitions)

isFinished(s) == s.m_isFinished

\* setDecodedTile() that keeps the phase cursor of the previous DecodedTile
setDecodedTile_keepsPhase(s) ==
    [s EXCEPT !.m_decodedTile = s.decodedTile,
              !.m_geometryKindsLoaded = {},
              !.captures = @ + 1]

\* setDecodedTile() that also takes back m_isFinished
setDecodedTile_clearsFinished(s) ==
    [s EXCEPT !.m_decodedTile = s.decodedTile,
              !.m_currentPhaseIndex = 0,
              !.m_geometryKindsLoaded = {},
              !.m_isFinished = FALSE,
              !.captures = @ + 1]

setDecodedTile(s) ==
    [s EXCEPT !.m_decodedTile = s.decodedTile,
              !.m_currentPhaseIndex = 0,
              !.m_geometryKindsLoaded = {},
              !.captures = @ + 1]

\* Tile.removeDecodedTile()
removeDecodedTile(s) ==
    [s EXCEPT !.decodedTile = Undefined, !.removeCalls = @ + 1]

\* finish() that also puts the cursor back to the first phase
finish_resetsCursor(s) ==
    [removeDecodedTile([s EXCEPT !.m_decodedTile = Undefined, !.m_currentPhaseIndex = 0])
        EXCEPT !.m_isFinished = TRUE]

finish(s) ==
    [removeDecodedTile([s EXCEPT !.m_decodedTile = Undefined]) EXCEPT !.m_isFinished = TRUE]

\* dispose() that also forgets the phases done
dispose_resetsPhase(s) ==
    [s EXCEPT !.m_decodedTile = Undefined,
              !.m_currentPhaseIndex = 0,
              !.m_geometryKindsLoaded = {}]

dispose(s) == [s EXCEPT !.m_decodedTile = Undefined]

\* a call of the geometry creator: <<operation, filter or kind, DecodedTile>>
Call(s, op, kind) == [s EXCEPT !.backend = Append(@, <<op, kind, s.m_decodedTile>>)]

\* TileGeometryCreator.createBackground(tile)
createBackground(s) == [Call(s, "createBackground", "Background") EXCEPT !.hasGeometry = TRUE]

KindBackend(s, kind) ==
    CASE kind \in {"Areas", "Lines", "Buildings"} -> Call(s, "createObjects", kind)
      [] kind = "Labels" -> Call(s, "createTextElements", kind)
      [] kind = "Pois" -> Call(s, "preparePois", kind)
      [] OTHER -> s

\* createKind() that records a kind only when it called the geometry creator for it
createKind_recordsBuiltOnly(s, kind) ==
    IF kind \in s.m_geometryKindsLoaded \/ kind = "Background" THEN s
    ELSE LET s1 == [s EXCEPT !.m_geometryKindsLoaded = @ \cup {kind}]
         IN  IF s1.m_decodedTile # Undefined
             THEN KindBackend(IF ~s1.hasGeometry THEN createBackground(s1) ELSE s1, kind)
             ELSE s1

createKind(s, kind) ==
    IF kind \in s.m_geometryKindsLoaded THEN s
    ELSE LET s1 == [s EXCEPT !.m_geometryKindsLoaded = @ \cup {kind}]
         IN  IF kind = "Background" THEN s1
             ELSE IF s1.m_decodedTile # Undefined
             THEN KindBackend(IF ~s1.hasGeometry THEN createBackground(s1) ELSE s1, kind)
             ELSE s1

\* for (const kind of currentPhaseDefinition) this.createKind(kind)
RECURSIVE createKinds(_, _)
createKinds(s, phase) ==
    IF phase = << >> THEN s
    ELSE createKinds(createKind(s, Head(phase)), Tail(phase))

\* update() on a cacheable tile that does not test whether it has a DecodedTile
updateCacheable_noDataTest(s1) ==
    IF currentPhase(s1) >= numberOfPhases
    THEN [s1 EXCEPT !.ret = FALSE]
    ELSE LET s2 == createKinds(s1, m_loadPhaseDefinitions[currentPhase(s1) + 1])
             s3 == nextPhase(s2)
             s4 == IF nextPhaseResult(s2) = NoPhase THEN finish(s3) ELSE s3
         IN  [s4 EXCEPT !.ret = TRUE]

\* the work of update() on a cacheable tile
updateCacheable(s1) ==
    IF s1.m_decodedTile = Undefined \/ currentPhase(s1) >= numberOfPhases
    THEN [s1 EXCEPT !.ret = FALSE]
    ELSE LET s2 == createKinds(s1, m_loadPhaseDefinitions[currentPhase(s1) + 1])
             s3 == nextPhase(s2)
             s4 == IF nextPhaseResult(s2) = NoPhase THEN finish(s3) ELSE s3
         IN  [s4 EXCEPT !.ret = TRUE]

\* update() without the short cut for a data source that is not cacheable
update_noShortCut(s0) ==
    LET s  == [s0 EXCEPT !.updateCalls = @ + 1]
        s1 == IF s.m_decodedTile = Undefined /\ s.decodedTile # Undefined
              THEN setDecodedTile(s)
              ELSE s
    IN  updateCacheable(s1)

update(s0) ==
    LET s  == [s0 EXCEPT !.updateCalls = @ + 1]
        s1 == IF s.m_decodedTile = Undefined /\ s.decodedTile # Undefined
              THEN setDecodedTile(s)
              ELSE s
    IN  IF ~s1.cacheable
        THEN [s1 EXCEPT !.m_currentPhaseIndex = Len(m_loadPhaseDefinitions), !.ret = FALSE]
        ELSE updateCacheable(s1)

\* updateToPhase(toPhase): the loader after the loop; didUpdate is the ret of the
\* last update() of the loop, false when the loop did not run.
RECURSIVE updateToPhaseLoop(_, _)
updateToPhaseLoop(s, toPhase) ==
    IF currentPhase(s) < toPhase
    THEN LET s1 == update(s)
         IN  IF ~s1.ret THEN s1 ELSE updateToPhaseLoop(s1, toPhase)
    ELSE s

\* updateToPhase() that loops as long as update() reports work
RECURSIVE updateWhileWork(_)
updateWhileWork(s) ==
    LET s1 == update(s)
    IN  IF ~s1.ret THEN s1 ELSE updateWhileWork(s1)

updateToPhase_ignoresTarget(s, toPhase) ==
    IF currentPhase(s) < toPhase
    THEN updateWhileWork(s)
    ELSE [s EXCEPT !.ret = FALSE]

updateToPhase(s, toPhase) ==
    IF currentPhase(s) < toPhase
    THEN updateToPhaseLoop(s, toPhase)
    ELSE [s EXCEPT !.ret = FALSE]

----------------------------------------------------------------------------
(* PhasedTileGeometryManager *)

m_maximumUpdatesPerFrame == 5

\* the loader initTile() gives to a tile
initTile(s) ==
    [s EXCEPT !.hasLoader = TRUE,
              !.m_decodedTile = Undefined,
              !.m_isFinished = FALSE,
              !.m_geometryKindsLoaded = {},
              !.m_currentPhaseIndex = 0]

\* the element of a set of one element; the loops below bind the state after
\* each call as the element of such a set
Only(S) == CHOOSE r \in S : TRUE

\* a pass over the tiles: the tiles, the tiles counted in numTilesUpdated and the
\* number of entries of the list the loop has visited
Pass(ts) == [tiles |-> ts, worked |-> {}, visited |-> 0]

Visit(st, i, t, s1, didUpdate) ==
    [tiles   |-> [st.tiles EXCEPT ![t] = s1],
     worked  |-> IF didUpdate THEN st.worked \cup {t} ELSE st.worked,
     visited |-> i]

\* the break of updateAllTiles() one tile late
BreakAllTiles_oneLate(numTilesUpdated, isDynamicFrame) ==
    /\ m_maximumUpdatesPerFrame > 0
    /\ numTilesUpdated > m_maximumUpdatesPerFrame
    /\ isDynamicFrame

\* the break of updateAllTiles()
BreakAllTiles(numTilesUpdated, isDynamicFrame) ==
    /\ m_maximumUpdatesPerFrame > 0
    /\ numTilesUpdated >= m_maximumUpdatesPerFrame
    /\ isDynamicFrame

RECURSIVE updateAllTilesFrom(_, _, _, _)
updateAllTilesFrom(st, list, i, isDynamicFrame) ==
    IF i > Len(list) THEN st
    ELSE LET t == list[i]
         IN  IF ~st.tiles[t].hasLoader
             THEN updateAllTilesFrom([st EXCEPT !.visited = i], list, i + 1, isDynamicFrame)
             ELSE Only({IF st1.tiles[t].ret
                              /\ BreakAllTiles(Cardinality(st1.worked), isDynamicFrame)
                        THEN st1
                        ELSE updateAllTilesFrom(st1, list, i + 1, isDynamicFrame) :
                           st1 \in {Visit(st, i, t, s1, s1.ret) :
                                       s1 \in {update(st.tiles[t])}}})

updateAllTiles(ts, list, isDynamicFrame) ==
    updateAllTilesFrom(Pass(ts), list, 1, isDynamicFrame)

\* the break of updateTilesIfNeeded() taken in every mode
BreakIfNeeded_anyMode(numTilesUpdated, isDynamicFrame) ==
    /\ m_maximumUpdatesPerFrame > 0
    /\ numTilesUpdated >= m_maximumUpdatesPerFrame

\* the break of updateTilesIfNeeded()
BreakIfNeeded(numTilesUpdated, isDynamicFrame) ==
    /\ isDynamicFrame
    /\ m_maximumUpdatesPerFrame > 0
    /\ numTilesUpdated >= m_maximumUpdatesPerFrame

RECURSIVE updateTilesIfNeededFrom(_, _, _, _, _)
updateTilesIfNeededFrom(st, list, i, toPhase, isDynamicFrame) ==
    IF i > Len(list) THEN st
    ELSE LET t == list[i]
         IN  IF ~st.tiles[t].hasLoader
             THEN updateTilesIfNeededFrom([st EXCEPT !.visited = i], list, i + 1, toPhase,
                                          isDynamicFrame)
             ELSE Only({IF st1.tiles[t].ret
                              /\ BreakIfNeeded(Cardinality(st1.worked), isDynamicFrame)
                        THEN st1
                        ELSE updateTilesIfNeededFrom(st1, list, i + 1, toPhase,
                                                     isDynamicFrame) :
                           st1 \in {Visit(st, i, t, s1, s1.ret) :
                                       s1 \in {updateToPhase(st.tiles[t], toPhase)}}})

updateTilesIfNeeded(ts, list, toPhase, isDynamicFrame) ==
    updateTilesIfNeededFrom(Pass(ts), list, 1, toPhase, isDynamicFrame)

\* the first loop of updateTilesTogether(): lowestPhase, NoPhase for undefined
RECURSIVE lowestPhaseFrom(_, _, _, _)
lowestPhaseFrom(ts, list, i, lowestPhase) ==
    IF i > Len(list) THEN lowestPhase
    ELSE LET s == ts[list[i]]
         IN  IF s.hasLoader /\ (lowestPhase = NoPhase \/ currentPhase(s) < lowestPhase)
             THEN lowestPhaseFrom(ts, list, i + 1, currentPhase(s))
             ELSE lowestPhaseFrom(ts, list, i + 1, lowestPhase)

\* lowestPhase taken from the first tile of the list
LowestPhase_ofFirst(ts, list) == lowestPhaseFrom(ts, SubSeq(list, 1, 1), 1, NoPhase)

LowestPhase(ts, list) == lowestPhaseFrom(ts, list, 1, NoPhase)

updateTilesTogether(ts, list, isDynamicFrame) ==
    LET lowestPhase == LowestPhase(ts, list)
    IN  IF lowestPhase # NoPhase /\ lowestPhase < Len(m_loadPhaseDefinitions)
        THEN updateTilesIfNeeded(ts, list, lowestPhase + 1, isDynamicFrame)
        ELSE Pass(ts)

\* checkTilesFinished() that asks isFinished
checkTilesFinished_byIsFinished(ts, list) ==
    \A i \in 1..Len(list) :
        ~(ts[list[i]].hasLoader /\ ~isFinished(ts[list[i]]))

checkTilesFinished(ts, list) ==
    \A i \in 1..Len(list) :
        ~(ts[list[i]].hasLoader /\ ~allGeometryLoaded(ts[list[i]]))

\* updateTiles() that calls mapView.update() whether or not the tiles are finished
updateTiles_alwaysRequests(ts, list, isDynamicFrame) ==
    Only({[pass |-> st, requests |-> 1] :
             st \in {IF isDynamicFrame
                      THEN updateAllTiles(ts, list, isDynamicFrame)
                      ELSE updateTilesTogether(ts, list, isDynamicFrame)}})

\* updateTiles(tiles): the pass and the number of mapView.update() calls
updateTiles(ts, list, isDynamicFrame) ==
    Only({[pass     |-> st,
           requests |-> IF ~checkTilesFinished(st.tiles, list) THEN 1 ELSE 0] :
             st \in {IF isDynamicFrame
                      THEN updateAllTiles(ts, list, isDynamicFrame)
                      ELSE updateTilesTogether(ts, list, isDynamicFrame)}})

----------------------------------------------------------------------------
(* SimpleTileGeometryLoader and SimpleTileGeometryManager. A tile of this     *)
(* loader is a record with the fields of the Tile the loader reads and writes *)
(* (decodedTile, disposed, isVisible), the loader's private fields, the       *)
(* callbacks it passed to setTimeout and not run yet (pending, each with the  *)
(* DecodedTile it closed over), and the calls made to its collaborators:      *)
(* createAllGeometries (builds, the DecodedTile of each call),                *)
(* visibleTileSet.disposeTile (evictions, the DecodedTile dropped at each),   *)
(* Tile.removeDecodedTile (removeCalls), dataSource.requestUpdate (requests). *)

NewSimpleTile(decoded, visible) ==
    [decodedTile   |-> decoded,
     delivered     |-> IF decoded = Undefined THEN 0 ELSE 1,
     disposed      |-> FALSE,
     isVisible     |-> visible,
     hasLoader     |-> TRUE,
     m_decodedTile |-> Undefined,
     m_isFinished  |-> FALSE,
     pending       |-> <<>>,
     builds        |-> <<>>,
     evictions     |-> <<>>,
     removeCalls   |-> 0,
     requests      |-> 0]

Simple_basicGeometryLoaded(s) == s.m_isFinished

Simple_allGeometryLoaded(s) == s.m_isFinished

Simple_isFinished(s) == s.m_isFinished

Simple_setDecodedTile(s) == [s EXCEPT !.m_decodedTile = s.decodedTile]

Simple_finish(s) == [removeDecodedTile(s) EXCEPT !.m_isFinished = TRUE]

Simple_dispose(s) == [s EXCEPT !.m_decodedTile = Undefined]

\* TileGeometryCreator.createAllGeometries(tile, decodedTile)
createAllGeometries(s, decodedTile) == [s EXCEPT !.builds = Append(@, decodedTile)]

\* prepareForRender() up to and including the setTimeout() call
prepareForRender(s) ==
    LET decodedTile == s.m_decodedTile
        s1 == [s EXCEPT !.m_decodedTile = Undefined]
    IN  IF decodedTile = Undefined \/ s1.disposed \/ ~s1.isVisible
        THEN s1
        ELSE [s1 EXCEPT !.pending = Append(@, decodedTile)]

\* a callback that evicts an invisible tile and schedules itself again
prepareForRender_timeout_retries(s) ==
    LET decodedTile == Head(s.pending)
        s1 == [s EXCEPT !.pending = Tail(@)]
    IN  IF ~s1.isVisible
        THEN [s1 EXCEPT !.evictions = Append(@, decodedTile),
                        !.pending = Append(@, decodedTile)]
        ELSE [Simple_finish(createAllGeometries(s1, decodedTile))
                 EXCEPT !.requests = @ + 1]

\* the callback prepareForRender() passed to setTimeout(), run for the oldest
\* pending entry
prepareForRender_timeout(s) ==
    LET decodedTile == Head(s.pending)
        s1 == [s EXCEPT !.pending = Tail(@)]
    IN  IF ~s1.isVisible
        THEN [s1 EXCEPT !.evictions = Append(@, decodedTile)]
        ELSE [Simple_finish(createAllGeometries(s1, decodedTile))
                 EXCEPT !.requests = @ + 1]

Simple_update(s) ==
    IF s.m_decodedTile = Undefined /\ s.decodedTile # Undefined
    THEN Simple_finish(prepareForRender(Simple_setDecodedTile(s)))
    ELSE s

\* SimpleTileGeometryManager.initTile()
Simple_initTile(s) ==
    [NewSimpleTile(s.decodedTile, s.isVisible)
        EXCEPT !.delivered = s.delivered, !.disposed = s.disposed]

\* SimpleTileGeometryManager.updateTiles(): the tiles after the loop over list[i..]
RECURSIVE Simple_updateTilesFrom(_, _, _)
Simple_updateTilesFrom(ts, list, i) ==
    IF i > Len(list)
    THEN ts
    ELSE LET t == list[i]
         IN  Simple_updateTilesFrom(
                 IF ts[t].hasLoader THEN [ts EXCEPT ![t] = Simple_update(ts[t])] ELSE ts,
                 list, i + 1)

\* updateTiles() that updates every tile of the manager, listed or not
Simple_updateTiles_everyTile(ts, list) ==
    Simple_updateTilesFrom(ts, [i \in 1..Len(ts) |-> i], 1)

Simple_updateTiles(ts, list) == Simple_updateTilesFrom(ts, list, 1)

----------------------------------------------------------------------------
(* Property values of techniques (InternalTechnique.ts). A property is a   *)
(* record with the JavaScript type of the value: undefined, a number, a    *)
(* boolean, a string, an interpolation definition as written in a theme    *)
(* (zoomLevels, values, interpolation), or an InterpolatedProperty         *)
(* (interpolationMode, zoomLevels, values). Arrays are sequences; the       *)
(* operators on them take the 0-based indices of the code. A value in the   *)
(* values of a definition is written as an integer: a number is itself,     *)
(* true and false are 1 and 0, a string is its index in Colors.             *)

JsUndefined == [type |-> "undefined"]

JsNumber(n) == [type |-> "number", v |-> n]

JsBoolean(b) == [type |-> "boolean", b |-> b]

\* the color strings of themes
Colors == <<"#ff0000", "#00ff00", "#0000ff", "#102030">>

JsString(str) == [type |-> "string", s |-> str]

\* an array of numbers
JsArray(array) == [type |-> "array", a |-> array]

\* InterpolatedPropertyDefinition; interpolation is "undefined" when not given
PropertyDefinition(zoomLevels, values, valueType, interpolation) ==
    [type |-> "definition", zoomLevels |-> zoomLevels, values |-> values,
     valueType |-> valueType, interpolation |-> interpolation]

isInterpolatedProperty(p) == p.type = "interpolated"

isInterpolatedPropertyDefinition(p) == p.type = "definition"

\* array[i]: the element in a sequence of one, or the empty sequence for undefined
ElementAt(array, i) == IF i >= 0 /\ i < Len(array) THEN <<array[i + 1]>> ELSE <<>>

\* Array.prototype.findIndex(a => a === element)
FindIndex(array, element) ==
    IF element = <<>> \/ \A j \in 1..Len(array) : array[j] # element[1]
    THEN -1
    ELSE (CHOOSE j \in 1..Len(array) :
              array[j] = element[1] /\ \A k \in 1..(j - 1) : array[k] # element[1]) - 1

\* Array.prototype.splice(start, 1): the array without the element at start; a
\* negative start counts from the end
Splice1(array, start) ==
    LET from == IF start < 0
                THEN (IF Len(array) + start < 0 THEN 0 ELSE Len(array) + start)
                ELSE start
    IN  IF from >= Len(array)
        THEN array
        ELSE SubSeq(array, 1, from) \o SubSeq(array, from + 2, Len(array))

\* the loop of removeDuplicatePropertyValues(), from index i on
RECURSIVE removeDuplicatesFrom(_, _)
removeDuplicatesFrom(p, i) ==
    IF ~(i < Len(p.values))
    THEN p
    ELSE IF FindIndex(p.zoomLevels, ElementAt(p.zoomLevels, i)) # i
         THEN removeDuplicatesFrom(
                  [p EXCEPT !.zoomLevels = Splice1(p.zoomLevels, i - 1),
                            !.values = Splice1(p.values, i - 2)], (i - 2) + 1)
         ELSE removeDuplicatesFrom(p, i + 1)

\* removeDuplicatePropertyValues(p): p as the function leaves it
removeDuplicatePropertyValues(p) == removeDuplicatesFrom(p, 0)

\* the number a color string stands for: +value.replace("#", "0x")
ColorNumber ==
    [c \in {"#ff0000", "#00ff00", "#0000ff", "#102030"} |->
        CASE c = "#ff0000" -> 16711680
          [] c = "#00ff00" -> 65280
          [] c = "#0000ff" -> 255
          [] c = "#102030" -> 1056816]

\* the three channels of a color, each n standing for n / 255
Channels(value) ==
    << (value \div 65536) % 256, (value \div 256) % 256, value % 256 >>

RECURSIVE ColorChannels(_)
ColorChannels(values) ==
    IF values = <<>>
    THEN <<>>
    ELSE Channels(ColorNumber[Colors[Head(values)]]) \o ColorChannels(Tail(values))

\* InterpolationMode[prop.interpolation], Discrete when not given
InterpolationModeOf(prop) ==
    IF prop.interpolation # "undefined" THEN prop.interpolation ELSE "Discrete"

\* the InterpolatedProperty made of the definition p that
\* removeDuplicatePropertyValues() left, and p
sampledProperty(p) ==
    [prop |-> p,
     result |->
        [type |-> "interpolated",
         interpolationMode |-> IF p.values # <<>> /\ p.valueType = "boolean"
                               THEN "Discrete" ELSE InterpolationModeOf(p),
         zoomLevels |-> p.zoomLevels,
         values |-> CASE p.values # <<>> /\ p.valueType = "boolean" ->
                            [i \in 1..Len(p.values) |-> IF p.values[i] # 0 THEN 1 ELSE 0]
                      [] p.values # <<>> /\ p.valueType = "string" -> ColorChannels(p.values)
                      [] OTHER -> p.values]]

\* createInterpolatedProperty(prop): the InterpolatedProperty returned, and prop
\* as removeDuplicatePropertyValues() left it
createInterpolatedProperty(prop) == sampledProperty(removeDuplicatePropertyValues(prop))

\* a getPropertyValue() that hands a definition back like any plain value
getPropertyValue_returnsDefinition(property, level) ==
    IF ~isInterpolatedProperty(property)
    THEN [raised |-> FALSE, value |-> property]
    ELSE [raised |-> FALSE,
          value |-> [type |-> "sampled", interpolationMode |-> property.interpolationMode,
                     zoomLevels |-> property.zoomLevels, values |-> property.values,
                     level |-> level]]

\* getPropertyValue(property, level): the value returned or the error thrown.
\* An InterpolatedProperty is sampled at level by the interpolant of its mode
\* (three.js): the value returned is written as the sampling that makes it
getPropertyValue(property, level) ==
    IF ~isInterpolatedProperty(property)
    THEN IF isInterpolatedPropertyDefinition(property)
         THEN [raised |-> TRUE, error |-> "Invalid property definition"]
         ELSE [raised |-> FALSE, value |-> property]
    ELSE [raised |-> FALSE,
          value |-> [type |-> "sampled", interpolationMode |-> property.interpolationMode,
                     zoomLevels |-> property.zoomLevels, values |-> property.values,
                     level |-> level]]

----------------------------------------------------------------------------
(* StyleSetEvaluator (InternalTechnique.ts). A StyleSet is the sequence of *)
(* its Style objects in document order (depth first); a Style names its    *)
(* parent, 0 at the top level. A field that may be undefined is <<>> when   *)
(* undefined and <<v>> when it is v. styles is "undefined", "array" (the    *)
(* children are the Styles whose parent it is), "string" (iterable, but its *)
(* elements are no Styles) or "object" (not iterable, as {} or null are).   *)
(* attr is a function from property names to property values. Technique     *)
(* objects live in objects and are referred to by their index there.        *)

\* a Style of nothing but a parent
EmptyStyle(parent) ==
    [parent |-> parent, styles |-> "undefined", technique |-> <<>>, when |-> <<>>,
     final |-> FALSE, renderOrder |-> <<>>, renderOrderBiasGroup |-> <<>>,
     renderOrderBiasRange |-> <<>>, transient |-> <<>>, labelProperty |-> <<>>,
     renderOrderBiasProperty |-> <<>>, attr |-> <<>>, _index |-> <<>>, _whenExpr |-> <<>>]

\* new StyleSetEvaluator(styleSet, validate), before the constructor has run,
\* with the local variables of the constructor and of processStyle()
NewStyleSetEvaluator(styleSet, validate) ==
    [styleSet |-> styleSet, validate |-> validate,
     m_renderOrderBiasGroups |-> [g \in {} |-> 0], m_techniques |-> <<>>,
     techniqueRenderOrder |-> 0, objects |-> <<>>, log |-> {}, raised |-> "",
     result |-> <<>>, ret |-> FALSE, technique |-> <<>>]

\* style.styles of an array, or the StyleSet for parent 0: the indices of the
\* children in order
Children(styleSet, parent) ==
    LET RECURSIVE From(_)
        From(j) == IF j > Len(styleSet)
                   THEN <<>>
                   ELSE (IF styleSet[j].parent = parent THEN <<j>> ELSE <<>>) \o From(j + 1)
    IN  From(1)

Abs(x) == IF x < 0 THEN -x ELSE x

\* style.renderOrderBiasGroup ? m_renderOrderBiasGroups.get(group) : undefined
groupOrderOf(w, group) ==
    IF group # <<>> /\ group[1] # "" /\ group[1] \in DOMAIN w.m_renderOrderBiasGroups
    THEN <<w.m_renderOrderBiasGroups[group[1]]>>
    ELSE <<>>

\* else if (renderOrderBiasGroupOrder)
renderOrderBiasGroupOrder_truthy(groupOrder) == groupOrder # <<>> /\ groupOrder[1] # 0

\* the warning logged when the renderOrder of the style at i is overridden
warnOverridden(w, i) ==
    IF w.styleSet[i].renderOrder # <<>>
    THEN w.log \cup {<<"warn", "style.renderOrder will be overridden", i>>}
    ELSE w.log

\* declaring the order of a bias group without moving the counter past the range
declareGroupOrder_rangeNotReserved(w, i, group, minRange, maxRange, renderOrder) ==
    [w EXCEPT !.log = warnOverridden(w, i),
              !.styleSet[i].renderOrder = <<renderOrder>>,
              !.techniqueRenderOrder = @ + 1,
              !.m_renderOrderBiasGroups =
                    IF group # "" THEN (group :> renderOrder) @@ @ ELSE @]

\* the style at i declares the order of its bias group from its range
declareGroupOrder(w, i, group, minRange, maxRange, renderOrder) ==
    [w EXCEPT !.log = warnOverridden(w, i),
              !.styleSet[i].renderOrder = <<renderOrder>>,
              !.techniqueRenderOrder = (@ + Abs(minRange) + maxRange) + 1,
              !.m_renderOrderBiasGroups =
                    IF group # "" THEN (group :> renderOrder) @@ @ ELSE @]

\* computeDefaultRenderOrder(style), the part for a style with a
\* renderOrderBiasGroup whose order in the map is groupOrder
computeBiasGroupOrder(w, i, groupOrder) ==
    IF w.styleSet[i].renderOrderBiasGroup = <<>>
    THEN w
    ELSE IF w.styleSet[i].renderOrderBiasRange # <<>> /\ groupOrder = <<>>
    THEN declareGroupOrder(w, i, w.styleSet[i].renderOrderBiasGroup[1],
                           w.styleSet[i].renderOrderBiasRange[1],
                           w.styleSet[i].renderOrderBiasRange[2],
                           IF w.styleSet[i].renderOrderBiasRange[1] < 0
                           THEN w.techniqueRenderOrder
                                    + Abs(w.styleSet[i].renderOrderBiasRange[1])
                           ELSE w.techniqueRenderOrder)
    ELSE IF renderOrderBiasGroupOrder_truthy(groupOrder)
    THEN [w EXCEPT !.log = warnOverridden(w, i), !.styleSet[i].renderOrder = groupOrder]
    ELSE w

\* for (const currStyle of style.styles) where style.styles is no array: the
\* elements of a string have neither children nor a technique, anything else
\* is not iterable
iterateStyles(w, styles) ==
    IF styles = "string" THEN w ELSE [w EXCEPT !.raised = "TypeError"]

\* logger.error("ERROR: style.styles must be an Array:", style) with validate
logNoArray(w, i) ==
    IF w.validate /\ w.styleSet[i].styles # "array"
    THEN [w EXCEPT !.log = @ \cup {<<"error", "style.styles must be an Array", i>>}]
    ELSE w

\* computeDefaultRenderOrder(style), the part for a style without children
assignAutoOrder(w, i) ==
    IF /\ w.styleSet[i].technique # <<>>
       /\ w.styleSet[i].attr # <<>>
       /\ "renderOrder" \notin DOMAIN w.styleSet[i].attr[1]
    THEN [w EXCEPT !.styleSet[i].attr =
                        <<("_renderOrderAuto" :> JsNumber(w.techniqueRenderOrder))
                            @@ w.styleSet[i].attr[1]>>,
                   !.techniqueRenderOrder = @ + 1]
    ELSE w

RECURSIVE computeDefaultRenderOrder(_, _)
RECURSIVE computeDefaultRenderOrders(_, _, _)
RECURSIVE computeChildOrders(_, _)

\* for (const currStyle of styles) computeDefaultRenderOrder(currStyle), from
\* the k-th element on
computeDefaultRenderOrders(w, styles, k) ==
    IF k > Len(styles) \/ w.raised # ""
    THEN w
    ELSE computeDefaultRenderOrders(computeDefaultRenderOrder(w, styles[k]), styles, k + 1)

\* computeDefaultRenderOrder(style), the part after the bias group
computeChildOrders(w, i) ==
    IF w.styleSet[i].styles = "array"
    THEN computeDefaultRenderOrders(w, Children(w.styleSet, i), 1)
    ELSE IF w.styleSet[i].styles # "undefined"
    THEN iterateStyles(logNoArray(w, i), w.styleSet[i].styles)
    ELSE assignAutoOrder(w, i)

\* computeDefaultRenderOrder(style) for the style at i
computeDefaultRenderOrder(w, i) ==
    computeChildOrders(
        computeBiasGroupOrder(w, i, groupOrderOf(w, w.styleSet[i].renderOrderBiasGroup)), i)

\* the constructor of StyleSetEvaluator
constructor(w) == computeDefaultRenderOrders(w, Children(w.styleSet, 0), 1)

\* style._whenExpr.evaluate(env): env is the set of the predicates that hold
Evaluate(when, env) == when \in env

\* the fields of a style that addAttributes() copies, by the name they have in
\* the technique
StyleFields ==
    {"renderOrder", "transient", "renderOrderBiasProperty", "label",
     "renderOrderBiasRange", "renderOrderBiasGroup"}

\* the field of the style that becomes technique[property], undefined or not
styleField(currStyle, property) ==
    CASE property = "renderOrder" -> currStyle.renderOrder
      [] property = "transient" -> currStyle.transient
      [] property = "renderOrderBiasProperty" -> currStyle.renderOrderBiasProperty
      [] property = "label" -> currStyle.labelProperty
      [] property = "renderOrderBiasRange" -> currStyle.renderOrderBiasRange
      [] property = "renderOrderBiasGroup" -> currStyle.renderOrderBiasGroup

\* the value technique[property] gets from the field of the style
styleFieldValue(currStyle, property) ==
    CASE property = "renderOrder" -> JsNumber(currStyle.renderOrder[1])
      [] property = "transient" -> JsBoolean(currStyle.transient[1])
      [] property = "renderOrderBiasProperty" -> JsString(currStyle.renderOrderBiasProperty[1])
      [] property = "label" -> JsString(currStyle.labelProperty[1])
      [] property = "renderOrderBiasRange" -> JsArray(currStyle.renderOrderBiasRange)
      [] property = "renderOrderBiasGroup" -> JsString(currStyle.renderOrderBiasGroup[1])

\* the properties addAttributes() copies from the fields of the style
copiedFields(currStyle) ==
    [property \in {p \in StyleFields : styleField(currStyle, p) # <<>>} |->
        styleFieldValue(currStyle, property)]

\* the properties of attr as createInterpolatedProperty() makes and leaves them
convertedAttr(attr) ==
    [property \in DOMAIN attr |->
        IF isInterpolatedPropertyDefinition(attr[property])
        THEN createInterpolatedProperty(attr[property])
        ELSE [prop |-> attr[property], result |-> attr[property]]]

\* the warnings of addAttributes() for the style at j
attrWarnings(w, j) ==
    IF w.validate
    THEN {<<"warn", property \o " defined in attr (deprecated)", j>> :
             property \in DOMAIN w.styleSet[j].attr[1] \cap {"technique", "renderOrder"}}
    ELSE {}

\* addAttributes(currStyle), the part for attr, converted
addConvertedAttr(w, j, converted) ==
    [w EXCEPT !.log = @ \cup attrWarnings(w, j),
              !.styleSet[j].attr = <<[property \in DOMAIN converted |-> converted[property].prop]>>,
              !.technique = [property \in DOMAIN converted |-> converted[property].result] @@ @]

\* addAttributes(currStyle) for the style at j, the part for attr
addAttr(w, j) ==
    IF w.styleSet[j].attr = <<>>
    THEN w
    ELSE addConvertedAttr(w, j, convertedAttr(w.styleSet[j].attr[1]))

\* an addAttributes(currStyle) that keeps what the technique has already
addAttributes_keepsFirst(w, j) ==
    [addAttr([w EXCEPT !.technique = copiedFields(w.styleSet[j]) @@ @], j)
        EXCEPT !.technique = w.technique @@ @]

\* addAttributes(currStyle) for the style at j: the technique under assembly
\* gets the fields of the style, then its attributes; the definitions in attr
\* are left as createInterpolatedProperty() leaves them
addAttributes(w, j) ==
    addAttr([w EXCEPT !.technique = copiedFields(w.styleSet[j]) @@ @], j)

RECURSIVE addAttributesOfAll(_, _, _)

\* for (const currStyle of styleStack) addAttributes(currStyle), from the k-th
\* element on
addAttributesOfAll(w, styleStack, k) ==
    IF k > Len(styleStack)
    THEN w
    ELSE addAttributesOfAll(addAttributes(w, styleStack[k]), styleStack, k + 1)

\* an entry in the table whose index the style does not keep
checkAddTechnique_indexNotKept(w, i) ==
    [w EXCEPT !.objects =
                   Append(@, ("_index" :> JsNumber(Len(w.m_techniques))) @@ w.technique),
              !.m_techniques = Append(@, Len(w.objects) + 1)]

\* checkAddTechnique(style, technique) for the style at i and the technique
\* assembled: the new object is entered in objects
checkAddTechnique(w, i) ==
    IF w.styleSet[i]._index = <<>> \/ w.styleSet[i]._index[1] < 0
    THEN [w EXCEPT !.objects =
                        Append(@, ("_index" :> JsNumber(Len(w.m_techniques))) @@ w.technique),
                   !.m_techniques = Append(@, Len(w.objects) + 1),
                   !.styleSet[i]._index = <<Len(w.m_techniques)>>]
    ELSE [w EXCEPT !.objects =
                        Append(@, ("_index" :> JsNumber(w.styleSet[i]._index[1]))
                                       @@ w.technique)]

\* a test for a technique assembled before that never finds one
hasTechnique_never(currStyle) == FALSE

\* style._index !== undefined
hasTechnique(currStyle) == currStyle._index # <<>>

\* return style.final === true, reached by a style with a technique only
isFinal(currStyle) == currStyle.technique # <<>> /\ currStyle.final

\* result.push(technique) of the technique just entered in objects
pushNewTechnique(w) == [w EXCEPT !.result = Append(@, <<Len(w.objects)>>)]

\* result.push(this.m_techniques[style._index]): undefined where the table has
\* no such entry
pushTechnique(w, index) ==
    [w EXCEPT !.result = Append(@, IF index < Len(w.m_techniques)
                                   THEN <<w.m_techniques[index + 1]>>
                                   ELSE <<>>)]

\* style._whenExpr = Expr.parse(style.when), once
parseWhen(w, i) ==
    IF w.styleSet[i].when # <<>>
    THEN [w EXCEPT !.styleSet[i]._whenExpr = w.styleSet[i].when]
    ELSE w

\* logger.warn("WARNING: No technique defined in style...") with validate
warnNoTechnique(w, i) ==
    IF w.validate
    THEN [w EXCEPT !.log = @ \cup {<<"warn", "No technique defined in style", i>>}]
    ELSE w

RECURSIVE processStyle(_, _, _, _)
RECURSIVE processStyles(_, _, _, _, _)
RECURSIVE processNext(_, _, _, _, _)
RECURSIVE processMatching(_, _, _, _)

\* for (const currStyle of styles) if (processStyle(...)) ..., from the k-th
\* element on: ret tells whether one of the calls returned true
processStyles(w, env, styleStack, styles, k) ==
    IF k > Len(styles) \/ w.raised # ""
    THEN [w EXCEPT !.ret = FALSE]
    ELSE processNext(processStyle(w, env, styleStack, styles[k]), env, styleStack, styles, k)

\* the loop after the call for the k-th element
processNext(w, env, styleStack, styles, k) ==
    IF w.raised = "" /\ w.ret
    THEN w
    ELSE processStyles(w, env, styleStack, styles, k + 1)

\* processStyle() for the style at i whose predicate holds; the stack is
\* pushed and popped by passing the longer stack on
processMatching(w, env, styleStack, i) ==
    IF w.styleSet[i].styles # "undefined"
    THEN IF w.validate /\ w.styleSet[i].styles # "array"
         THEN [logNoArray(w, i) EXCEPT !.ret = FALSE]
         ELSE IF w.styleSet[i].styles = "array"
              THEN processStyles(w, env, Append(styleStack, i), Children(w.styleSet, i), 1)
              ELSE [iterateStyles(w, w.styleSet[i].styles) EXCEPT !.ret = FALSE]
    ELSE IF w.styleSet[i].technique # <<>>
    THEN IF ~hasTechnique(w.styleSet[i])
         THEN [pushNewTechnique(
                   checkAddTechnique(
                       addAttributes(
                           addAttributesOfAll(
                               [w EXCEPT !.technique =
                                    "name" :> JsString(w.styleSet[i].technique[1])],
                               styleStack, 1),
                           i),
                       i))
                 EXCEPT !.ret = isFinal(w.styleSet[i])]
         ELSE [pushTechnique(w, w.styleSet[i]._index[1])
                 EXCEPT !.ret = isFinal(w.styleSet[i])]
    ELSE [warnNoTechnique(w, i) EXCEPT !.ret = FALSE]

\* processStyle(env, styleStack, style, result) for the style at i
processStyle(w, env, styleStack, i) ==
    IF w.styleSet[i].when # <<>> /\ ~Evaluate(w.styleSet[i].when[1], env)
    THEN [parseWhen(w, i) EXCEPT !.ret = FALSE]
    ELSE processMatching(parseWhen(w, i), env, styleStack, i)

\* getMatchingTechniques(env): the evaluator with the array returned in result;
\* the style stack is empty before every style of the StyleSet
getMatchingTechniques(w, env) ==
    processStyles([w EXCEPT !.result = <<>>], env, <<>>, Children(w.styleSet, 0), 1)

----------------------------------------------------------------------------
(* One loader and its tile: every operation of the loader, in any order *)

Tiles == DOMAIN tiles

NoFrame == [op |-> "init", tile |-> 0, arg |-> 0]

Init ==
    /\ m_loadPhaseDefinitions \in PhaseConfigs
    /\ m_basicGeometryKinds \in BasicConfigs
    /\ \E c \in BOOLEAN, d \in {Undefined, 1} :
          /\ tiles = [t \in {1} |-> NewTile(c, d)]
          /\ run = [t \in {1} |-> 0]
    /\ frame = NoFrame
    /\ simple = <<>>
    /\ evaluator = NoEvaluator
    /\ interp = NoInterp

\* the data source assigns a new DecodedTile to the tile
Deliver(t) ==
    /\ tiles[t].delivered < MaxDeliveries
    /\ tiles' = [tiles EXCEPT ![t].decodedTile = tiles[t].delivered + 1,
                              ![t].delivered = @ + 1]
    /\ run' = [run EXCEPT ![t] = -1]
    /\ frame' = [op |-> "deliver", tile |-> t, arg |-> 0]
    /\ UNCHANGED <<evaluator, interp, m_loadPhaseDefinitions, m_basicGeometryKinds, simple>>

Update(t) ==
    /\ run[t] < MaxRun
    /\ tiles' = [tiles EXCEPT ![t] = update([tiles[t] EXCEPT !.updateCalls = 0])]
    /\ run' = [run EXCEPT ![t] = IF @ < 0 THEN @ ELSE @ + 1]
    /\ frame' = [op |-> "update", tile |-> t, arg |-> 0]
    /\ UNCHANGED <<evaluator, interp, m_loadPhaseDefinitions, m_basicGeometryKinds, simple>>

UpdateToPhase(t) ==
    \E toPhase \in 0..(numberOfPhases + 1) :
        /\ tiles' = [tiles EXCEPT
                        ![t] = updateToPhase([tiles[t] EXCEPT !.updateCalls = 0], toPhase)]
        /\ run' = [run EXCEPT ![t] = -1]
        /\ frame' = [op |-> "updateToPhase", tile |-> t, arg |-> toPhase]
        /\ UNCHANGED <<evaluator, interp, m_loadPhaseDefinitions, m_basicGeometryKinds, simple>>

Dispose(t) ==
    /\ tiles[t].disposes < MaxDisposes \/ tiles[t].m_decodedTile = Undefined
    /\ tiles' = [tiles EXCEPT ![t] =
                    [dispose(tiles[t]) EXCEPT !.disposes =
                        IF tiles[t].m_decodedTile = Undefined THEN @ ELSE @ + 1]]
    /\ run' = [run EXCEPT ![t] = -1]
    /\ frame' = [op |-> "dispose", tile |-> t,
                 arg |-> IF tiles[t].m_decodedTile = Undefined THEN 0 ELSE 1]
    /\ UNCHANGED <<evaluator, interp, m_loadPhaseDefinitions, m_basicGeometryKinds, simple>>

Next ==
    \/ \E t \in Tiles : Deliver(t)
    \/ \E t \in Tiles : Update(t)
    \/ \E t \in Tiles : UpdateToPhase(t)
    \/ \E t \in Tiles : Dispose(t)

Spec == Init /\ [][Next]_vars

----------------------------------------------------------------------------
(* The manager over NumTiles tiles: frames of both modes over any of TileLists, *)
(* tiles that get their loader late, and DecodedTiles delivered between frames  *)

\* the tiles whose data source and initial DecodedTile vary; the other tiles are
\* cacheable and hold their DecodedTile from the start
VaryingTiles == {2}

\* the tiles that get their loader by an initTile() after the first frames
LateTiles == {NumTiles}

\* the tiles that get a new DecodedTile when the previous one is consumed
RedeliveredTiles == {1}

AllTiles == [i \in 1..NumTiles |-> i]

\* the lists of visible tiles passed to updateTiles(): all tiles, all tiles in
\* reverse order, and the first two tiles
TileLists ==
    {AllTiles, [i \in 1..NumTiles |-> NumTiles + 1 - i], SubSeq(AllTiles, 1, 2)}

InitManager ==
    /\ m_loadPhaseDefinitions = DefaultPhases
    /\ m_basicGeometryKinds = DefaultBasicGeometryKinds
    /\ \E c \in [VaryingTiles -> BOOLEAN], d \in [VaryingTiles -> {Undefined, 1}] :
          tiles = [t \in 1..NumTiles |->
                     [NewTile(IF t \in VaryingTiles THEN c[t] ELSE TRUE,
                              IF t \in VaryingTiles THEN d[t] ELSE 1)
                        EXCEPT !.hasLoader = t \notin LateTiles]]
    /\ run = [t \in 1..NumTiles |-> -1]
    /\ frame = NoFrame
    /\ simple = <<>>
    /\ evaluator = NoEvaluator
    /\ interp = NoInterp

InitTile(t) ==
    /\ ~tiles[t].hasLoader
    /\ tiles' = [tiles EXCEPT ![t] = initTile(tiles[t])]
    /\ frame' = [op |-> "initTile", tile |-> t, arg |-> 0]
    /\ UNCHANGED <<evaluator, interp, m_loadPhaseDefinitions, m_basicGeometryKinds, run, simple>>

DeliverBetweenFrames(t) ==
    /\ t \in RedeliveredTiles
    /\ tiles[t].decodedTile = Undefined
    /\ tiles[t].delivered < MaxDeliveries
    /\ tiles' = [tiles EXCEPT ![t].decodedTile = tiles[t].delivered + 1,
                              ![t].delivered = @ + 1]
    /\ frame' = [op |-> "deliver", tile |-> t, arg |-> 0]
    /\ UNCHANGED <<evaluator, interp, m_loadPhaseDefinitions, m_basicGeometryKinds, run, simple>>

\* no update() call of the frame yet
FrameStart == [t \in Tiles |-> [tiles[t] EXCEPT !.updateCalls = 0]]

\* what a frame did: the tiles counted in numTilesUpdated, the entries of the list
\* the loop went through, the tiles whose cursor changed, the mapView.update() calls
FrameRecord(r, list, isDynamicFrame) ==
    [op       |-> "updateTiles",
     dynamic  |-> isDynamicFrame,
     list     |-> list,
     changed  |-> {t \in Tiles : currentPhase(r.pass.tiles[t]) # currentPhase(tiles[t])},
     worked   |-> r.pass.worked,
     visited  |-> r.pass.visited,
     requests |-> r.requests]

\* updateTiles(list) while mapView.isDynamicFrame
DynamicFrame ==
    \E list \in TileLists :
        \E r \in {updateTiles(FrameStart, list, TRUE)} :
            /\ tiles' = r.pass.tiles
            /\ frame' = FrameRecord(r, list, TRUE)
            /\ UNCHANGED <<evaluator, interp, m_loadPhaseDefinitions, m_basicGeometryKinds, run, simple>>

\* updateTiles(list) while not mapView.isDynamicFrame
StaticFrame ==
    \E list \in TileLists :
        \E r \in {updateTiles(FrameStart, list, FALSE)} :
            /\ tiles' = r.pass.tiles
            /\ frame' = FrameRecord(r, list, FALSE)
            /\ UNCHANGED <<evaluator, interp, m_loadPhaseDefinitions, m_basicGeometryKinds, run, simple>>

NextManager ==
    \/ \E t \in Tiles : InitTile(t)
    \/ \E t \in Tiles : DeliverBetweenFrames(t)
    \/ DynamicFrame
    \/ StaticFrame

SpecManager == InitManager /\ [][NextManager]_vars

----------------------------------------------------------------------------
(* SimpleTileGeometryLoaders under their manager: NumSimpleTiles tiles, frames *)
(* over any of SimpleTileLists, the timers of the deferred builds, and on the   *)
(* tiles of SimpleVaryingTiles deliveries at any moment, visibility changes     *)
(* and disposal                                                                  *)

SimpleTiles == DOMAIN simple

\* the tiles whose visibility, disposal and deliveries vary; the other tiles
\* hold one DecodedTile from the start and stay visible
SimpleVaryingTiles == {1}

\* the tiles that get their loader by an initTile() after the first frames
SimpleLateTiles == {NumSimpleTiles}

AllSimpleTiles == [i \in 1..NumSimpleTiles |-> i]

\* the lists passed to updateTiles(): all tiles, the first tile, the last tile
SimpleTileLists == {AllSimpleTiles, <<1>>, <<NumSimpleTiles>>}

InitSimple ==
    /\ \E d \in {Undefined, 1}, v \in BOOLEAN :
          simple = [t \in 1..NumSimpleTiles |->
                      [NewSimpleTile(IF t \in SimpleVaryingTiles THEN d ELSE 1,
                                     IF t \in SimpleVaryingTiles THEN v ELSE TRUE)
                          EXCEPT !.hasLoader = t \notin SimpleLateTiles]]
    /\ tiles = <<>>
    /\ run = <<>>
    /\ m_loadPhaseDefinitions = <<>>
    /\ m_basicGeometryKinds = {}
    /\ frame = NoFrame
    /\ evaluator = NoEvaluator
    /\ interp = NoInterp

SimpleInitTile(t) ==
    /\ ~simple[t].hasLoader
    /\ simple' = [simple EXCEPT ![t] = Simple_initTile(simple[t])]
    /\ frame' = [op |-> "initTile", tile |-> t, arg |-> 0]
    /\ UNCHANGED <<evaluator, interp, tiles, m_loadPhaseDefinitions, m_basicGeometryKinds, run>>

\* the data source assigns a new DecodedTile to the tile
SimpleDeliver(t) ==
    /\ t \in SimpleVaryingTiles
    /\ simple[t].delivered < MaxDeliveries
    /\ simple' = [simple EXCEPT ![t].decodedTile = simple[t].delivered + 1,
                                ![t].delivered = @ + 1]
    /\ frame' = [op |-> "deliver", tile |-> t, arg |-> 0]
    /\ UNCHANGED <<evaluator, interp, tiles, m_loadPhaseDefinitions, m_basicGeometryKinds, run>>

\* the camera moves: the tile enters or leaves the view
SetVisible(t) ==
    /\ t \in SimpleVaryingTiles
    /\ simple' = [simple EXCEPT ![t].isVisible = ~@]
    /\ frame' = [op |-> "setVisible", tile |-> t, arg |-> 0]
    /\ UNCHANGED <<evaluator, interp, tiles, m_loadPhaseDefinitions, m_basicGeometryKinds, run>>

\* the tile is disposed
TileDisposed(t) ==
    /\ t \in SimpleVaryingTiles
    /\ ~simple[t].disposed
    /\ simple' = [simple EXCEPT ![t].disposed = TRUE]
    /\ frame' = [op |-> "tileDisposed", tile |-> t, arg |-> 0]
    /\ UNCHANGED <<evaluator, interp, tiles, m_loadPhaseDefinitions, m_basicGeometryKinds, run>>

SimpleUpdate(t) ==
    /\ simple[t].hasLoader
    /\ simple' = [simple EXCEPT ![t] = Simple_update(simple[t])]
    /\ frame' = [op |-> "update", tile |-> t, arg |-> 0]
    /\ UNCHANGED <<evaluator, interp, tiles, m_loadPhaseDefinitions, m_basicGeometryKinds, run>>

SimpleDispose(t) ==
    /\ simple[t].hasLoader
    /\ simple' = [simple EXCEPT ![t] = Simple_dispose(simple[t])]
    /\ frame' = [op |-> "dispose", tile |-> t, arg |-> 0]
    /\ UNCHANGED <<evaluator, interp, tiles, m_loadPhaseDefinitions, m_basicGeometryKinds, run>>

\* the timer of the oldest deferred build of the tile fires
SimpleTimeout(t) ==
    /\ simple[t].pending # <<>>
    /\ simple' = [simple EXCEPT ![t] = prepareForRender_timeout(simple[t])]
    /\ frame' = [op |-> "timeout", tile |-> t, arg |-> Head(simple[t].pending)]
    /\ UNCHANGED <<evaluator, interp, tiles, m_loadPhaseDefinitions, m_basicGeometryKinds, run>>

SimpleFrame ==
    \E list \in SimpleTileLists :
        /\ simple' = Simple_updateTiles(simple, list)
        /\ frame' = [op |-> "updateTiles", tile |-> 0, arg |-> 0, list |-> list]
        /\ UNCHANGED <<evaluator, interp, tiles, m_loadPhaseDefinitions, m_basicGeometryKinds, run>>

NextSimple ==
    \/ \E t \in SimpleTiles : SimpleInitTile(t)
    \/ \E t \in SimpleTiles : SimpleDeliver(t)
    \/ \E t \in SimpleTiles : SetVisible(t)
    \/ \E t \in SimpleTiles : TileDisposed(t)
    \/ \E t \in SimpleTiles : SimpleUpdate(t)
    \/ \E t \in SimpleTiles : SimpleDispose(t)
    \/ \E t \in SimpleTiles : SimpleTimeout(t)
    \/ SimpleFrame

SpecSimple == InitSimple /\ [][NextSimple]_vars

----------------------------------------------------------------------------
(* Either loader: the behaviours of one PhasedTileGeometryLoader (Spec) and *)
(* those of the SimpleTileGeometryLoaders (SpecSimple)                      *)

InitLoaders == Init \/ InitSimple

NextLoaders ==
    \/ \E t \in Tiles : Deliver(t)
    \/ \E t \in Tiles : Update(t)
    \/ \E t \in Tiles : UpdateToPhase(t)
    \/ \E t \in Tiles : Dispose(t)
    \/ \E t \in SimpleTiles : SimpleInitTile(t)
    \/ \E t \in SimpleTiles : SimpleDeliver(t)
    \/ \E t \in SimpleTiles : SetVisible(t)
    \/ \E t \in SimpleTiles : TileDisposed(t)
    \/ \E t \in SimpleTiles : SimpleUpdate(t)
    \/ \E t \in SimpleTiles : SimpleDispose(t)
    \/ \E t \in SimpleTiles : SimpleTimeout(t)
    \/ SimpleTiles # {} /\ SimpleFrame

SpecLoaders == InitLoaders /\ [][NextLoaders]_vars

----------------------------------------------------------------------------
(* Either manager: the behaviours of the PhasedTileGeometryManager          *)
(* (SpecManager) and those of the SimpleTileGeometryManager (SpecSimple)    *)

InitManagers == InitManager \/ InitSimple

NextManagers ==
    \/ \E t \in Tiles : InitTile(t)
    \/ \E t \in Tiles : DeliverBetweenFrames(t)
    \/ Tiles # {} /\ DynamicFrame
    \/ Tiles # {} /\ StaticFrame
    \/ \E t \in SimpleTiles : SimpleInitTile(t)
    \/ \E t \in SimpleTiles : SimpleDeliver(t)
    \/ \E t \in SimpleTiles : SetVisible(t)
    \/ \E t \in SimpleTiles : TileDisposed(t)
    \/ \E t \in SimpleTiles : SimpleUpdate(t)
    \/ \E t \in SimpleTiles : SimpleDispose(t)
    \/ \E t \in SimpleTiles : SimpleTimeout(t)
    \/ SimpleTiles # {} /\ SimpleFrame

SpecManagers == InitManagers /\ [][NextManagers]_vars

----------------------------------------------------------------------------
(* The frame loop of the PhasedTileGeometryManager over a fixed list of all *)
(* tiles: updateTiles() runs when a frame was requested, in either mode; a  *)
(* tile of RedeliveredTiles gets a new DecodedTile once its loader has      *)
(* consumed the previous one                                                *)

\* every tile has its loader; a tile of VaryingTiles is of a data source that is
\* not cacheable, with or without a DecodedTile; all other tiles are cacheable
\* and hold their DecodedTile
InitFrames ==
    /\ m_loadPhaseDefinitions = DefaultPhases
    /\ m_basicGeometryKinds = DefaultBasicGeometryKinds
    /\ \E c \in [VaryingTiles -> BOOLEAN], d \in [VaryingTiles -> {Undefined, 1}] :
          /\ \A t \in VaryingTiles : c[t] => d[t] # Undefined
          /\ tiles = [t \in 1..NumTiles |->
                        NewTile(IF t \in VaryingTiles THEN c[t] ELSE TRUE,
                                IF t \in VaryingTiles THEN d[t] ELSE 1)]
    /\ run = [t \in 1..NumTiles |-> -1]
    /\ frame = NoFrame
    /\ simple = <<>>
    /\ evaluator = NoEvaluator
    /\ interp = NoInterp

\* a frame is due: the first one, one after a delivery, and one after each
\* updateTiles() that called mapView.update()
FrameRequested == frame.op = "updateTiles" => frame.requests > 0

RequestedDynamicFrame ==
    /\ FrameRequested
    /\ \E r \in {updateTiles(FrameStart, AllTiles, TRUE)} :
          /\ tiles' = r.pass.tiles
          /\ frame' = FrameRecord(r, AllTiles, TRUE)
    /\ UNCHANGED <<evaluator, interp, m_loadPhaseDefinitions, m_basicGeometryKinds, run, simple>>

RequestedStaticFrame ==
    /\ FrameRequested
    /\ \E r \in {updateTiles(FrameStart, AllTiles, FALSE)} :
          /\ tiles' = r.pass.tiles
          /\ frame' = FrameRecord(r, AllTiles, FALSE)
    /\ UNCHANGED <<evaluator, interp, m_loadPhaseDefinitions, m_basicGeometryKinds, run, simple>>

RequestedFrame == RequestedDynamicFrame \/ RequestedStaticFrame

NextFrames ==
    \/ \E t \in Tiles : DeliverBetweenFrames(t)
    \/ RequestedDynamicFrame
    \/ RequestedStaticFrame

\* the render loop runs every frame that was requested
SpecFrames == InitFrames /\ [][NextFrames]_vars /\ WF_vars(RequestedFrame)

----------------------------------------------------------------------------
(* createInterpolatedProperty() and getPropertyValue() applied to property *)
(* values                                                                   *)

\* the zoom levels of interpolation definitions
ZoomLevels == {1, 2, 3}

\* the display levels getPropertyValue() is asked for
DisplayLevels == {0, 2, 4}

\* the values of a definition with n entries: every entry is told from the others
\* by its value (numbers and colors) or from its neighbours (booleans)
ValuesOf(valueType, n) ==
    CASE valueType = "number" -> [i \in 1..n |-> 10 * i]
      [] valueType = "boolean" -> [i \in 1..n |-> i % 2]
      [] valueType = "string" -> [i \in 1..n |-> i]

\* the interpolation definitions: up to MaxLen zoom levels in any order, with
\* repetitions, and as many values
PropertyDefinitions ==
    {PropertyDefinition(zl, ValuesOf(valueType, Len(zl)), valueType, interpolation) :
        zl \in UNION {[1..n -> ZoomLevels] : n \in 0..MaxLen},
        valueType \in {"number", "boolean", "string"},
        interpolation \in {"undefined", "Linear"}}

\* the properties that are not interpolated
PlainProperties ==
    {JsUndefined, JsNumber(0), JsNumber(5), JsBoolean(FALSE), JsBoolean(TRUE),
     JsString("#ff0000")}

\* the property is any plain value or any interpolation definition of a theme
InitProperty ==
    /\ \E property \in PlainProperties \cup PropertyDefinitions :
          interp = [op |-> "init", property |-> property]
    /\ evaluator = NoEvaluator
    /\ tiles = <<>>
    /\ run = <<>>
    /\ simple = <<>>
    /\ m_loadPhaseDefinitions = <<>>
    /\ m_basicGeometryKinds = {}
    /\ frame = NoFrame

\* createInterpolatedProperty(prop) for the definition of the theme: the
\* property is the InterpolatedProperty from then on
CreateInterpolatedProperty ==
    /\ interp.op = "init"
    /\ isInterpolatedPropertyDefinition(interp.property)
    /\ \E r \in {createInterpolatedProperty(interp.property)} :
          interp' = [op |-> "createInterpolatedProperty", definition |-> interp.property,
                     prop |-> r.prop, property |-> r.result]
    /\ UNCHANGED <<evaluator, tiles, m_loadPhaseDefinitions, m_basicGeometryKinds, run,
                   frame, simple>>

\* getPropertyValue(property, level) for the property as it is: a plain value,
\* a definition that was not converted, or an InterpolatedProperty
GetPropertyValue ==
    \E level \in DisplayLevels :
        /\ interp' = [op |-> "getPropertyValue", property |-> interp.property,
                      level |-> level,
                      result |-> getPropertyValue(interp.property, level)]
        /\ UNCHANGED <<evaluator, tiles, m_loadPhaseDefinitions, m_basicGeometryKinds, run,
                       frame, simple>>

NextProperty ==
    \/ CreateInterpolatedProperty
    \/ GetPropertyValue

SpecProperty == InitProperty /\ [][NextProperty]_vars

----------------------------------------------------------------------------
(* One StyleSetEvaluator over a StyleSet: the constructor, then any         *)
(* getMatchingTechniques() calls                                            *)

\* the technique ids of the styles, by position
TechniqueNames == <<"line", "fill", "text", "solid-line">>

\* the style at i has children in the tree whose parents are listed in shape
HasChildren(shape, i) == \E j \in 1..Len(shape) : shape[j] = i

\* the Style at i of a tree: a style with children is a group; c says what
\* else it is made of
MakeStyle(shape, i, c) ==
    [EmptyStyle(shape[i]) EXCEPT
        !.styles = IF HasChildren(shape, i) THEN "array"
                   ELSE IF c.kind \in {"array", "string", "object"} THEN c.kind
                   ELSE "undefined",
        !.technique = IF ~HasChildren(shape, i) /\ c.kind = "technique"
                      THEN <<TechniqueNames[i]>> ELSE <<>>,
        !.when = c.when,
        !.final = c.final,
        !.renderOrder = c.order.renderOrder,
        !.renderOrderBiasGroup = c.order.renderOrderBiasGroup,
        !.renderOrderBiasRange = c.order.renderOrderBiasRange,
        !.transient = c.fields.transient,
        !.labelProperty = c.fields.labelProperty,
        !.renderOrderBiasProperty = c.fields.renderOrderBiasProperty,
        !.attr = c.attr]

\* the StyleSets of the given tree shapes whose styles are made of the given
\* choices
StyleSetsOf(shapes, choices) ==
    UNION {{[i \in 1..Len(shape) |-> MakeStyle(shape, i, c[i])] :
               c \in [1..Len(shape) -> choices]} : shape \in shapes}

\* trees of up to two and of three styles, as the parent of each style
SmallShapes == {<<0>>, <<0, 0>>, <<0, 1>>}

Shapes == {<<0, 0, 0>>, <<0, 1, 1>>, <<0, 1, 2>>, <<0, 1, 0>>, <<0, 0, 2>>}

\* the trees with a group in them
NestedShapes == {<<0, 1>>, <<0, 1, 1>>, <<0, 1, 2>>, <<0, 1, 0>>}

\* a group of two followed by a style at the top level
LargeShapes == {<<0, 1, 1, 0>>}

NoOrder == [renderOrder |-> <<>>, renderOrderBiasGroup |-> <<>>, renderOrderBiasRange |-> <<>>]

ExplicitOrder == [NoOrder EXCEPT !.renderOrder = <<7>>]

\* members of the bias group "g", with and without a range, and one of "h"
GroupOrders ==
    {[NoOrder EXCEPT !.renderOrderBiasGroup = <<"g">>],
     [NoOrder EXCEPT !.renderOrderBiasGroup = <<"g">>, !.renderOrderBiasRange = <<0, 1>>],
     [NoOrder EXCEPT !.renderOrderBiasGroup = <<"g">>, !.renderOrderBiasRange = <<-1, 1>>]}

ExplicitGroupOrders ==
    {[ExplicitOrder EXCEPT !.renderOrderBiasGroup = <<"g">>],
     [ExplicitOrder EXCEPT !.renderOrderBiasGroup = <<"g">>,
                           !.renderOrderBiasRange = <<0, 1>>],
     [NoOrder EXCEPT !.renderOrderBiasGroup = <<"h">>, !.renderOrderBiasRange = <<0, 2>>]}

NoFields == [transient |-> <<>>, labelProperty |-> <<>>, renderOrderBiasProperty |-> <<>>]

AllFields ==
    [transient |-> <<TRUE>>, labelProperty |-> <<"name">>,
     renderOrderBiasProperty |-> <<"layer">>]

\* attr: {}
EmptyAttr == <<[property \in {} |-> JsUndefined]>>

\* attr: { renderOrder: 9 }
OrderAttr == <<"renderOrder" :> JsNumber(9)>>

\* attr with a color, with a color and a width, and with a width that is an
\* interpolation definition, one with a repeated zoom level
ColorAttrs ==
    {<<"color" :> JsString("#ff0000")>>,
     <<("color" :> JsString("#00ff00")) @@ ("lineWidth" :> JsNumber(3))>>,
     <<"lineWidth" :> PropertyDefinition(<<1, 2>>, <<10, 20>>, "number", "Linear")>>,
     <<"lineWidth" :> PropertyDefinition(<<1, 1, 2>>, <<10, 20, 30>>, "number", "undefined")>>}

\* a style with a technique and attr: {}, nothing else
PlainChoice ==
    [kind |-> "technique", when |-> <<>>, final |-> FALSE, order |-> NoOrder,
     fields |-> NoFields, attr |-> EmptyAttr]

\* styles that differ in render order, bias group and attr.renderOrder
OrderChoices ==
    {[PlainChoice EXCEPT !.order = o, !.attr = a] :
        o \in {NoOrder, ExplicitOrder} \cup GroupOrders \cup ExplicitGroupOrders,
        a \in {<<>>, EmptyAttr, OrderAttr}}

GroupChoices == {[PlainChoice EXCEPT !.order = o] : o \in {NoOrder} \cup GroupOrders}

AutoOrderChoices ==
    {[PlainChoice EXCEPT !.order = o, !.attr = a] :
        o \in {NoOrder, ExplicitOrder}, a \in {<<>>, EmptyAttr, OrderAttr}}

\* styles that differ in their predicate and in final
MatchChoices ==
    {[PlainChoice EXCEPT !.when = w, !.final = f] :
        w \in {<<>>, <<"a">>, <<"b">>}, f \in BOOLEAN}

LargeMatchChoices ==
    {[PlainChoice EXCEPT !.when = w, !.final = f] : w \in {<<>>, <<"a">>}, f \in BOOLEAN}

\* styles that differ in their attributes
AttrChoices ==
    {[PlainChoice EXCEPT !.attr = a, !.fields = f] :
        a \in {<<>>} \cup ColorAttrs, f \in {NoFields, AllFields}}

\* styles without children that have a technique, have none, or have a child
\* list that is no array
ShapeChoices ==
    {[PlainChoice EXCEPT !.kind = k, !.when = w] :
        k \in {"technique", "none", "string", "object"}, w \in {<<>>, <<"a">>}}

\* the environments the predicates of a StyleSet tell apart
Envs(styleSet) ==
    SUBSET {styleSet[i].when[1] : i \in {j \in 1..Len(styleSet) : styleSet[j].when # <<>>}}

\* an evaluator about to be constructed over one of the given StyleSets; theme
\* keeps the StyleSet as it was written
InitStyleOf(styleSets) ==
    /\ \E styleSet \in styleSets, validate \in BOOLEAN :
          evaluator = [op |-> "init", env |-> {}, returned |-> [e \in {} |-> <<>>],
                       theme |-> styleSet,
                       w |-> NewStyleSetEvaluator(styleSet, validate)]
    /\ interp = NoInterp
    /\ tiles = <<>>
    /\ run = <<>>
    /\ simple = <<>>
    /\ m_loadPhaseDefinitions = <<>>
    /\ m_basicGeometryKinds = {}
    /\ frame = NoFrame

InitStyle ==
    \/ InitStyleOf(StyleSetsOf(SmallShapes, OrderChoices))
    \/ InitStyleOf(StyleSetsOf(Shapes, GroupChoices))
    \/ InitStyleOf(StyleSetsOf(Shapes, AutoOrderChoices))
    \/ InitStyleOf(StyleSetsOf(SmallShapes, MatchChoices))
    \/ InitStyleOf(StyleSetsOf(Shapes \cup LargeShapes, LargeMatchChoices))
    \/ InitStyleOf(StyleSetsOf(NestedShapes, AttrChoices))
    \/ InitStyleOf(StyleSetsOf(SmallShapes \cup Shapes, ShapeChoices))

\* new StyleSetEvaluator(styleSet, validate)
Construct ==
    /\ evaluator.op = "init"
    /\ \E w \in {constructor(evaluator.w)} :
          evaluator' = [evaluator EXCEPT !.op = "new", !.w = w]
    /\ UNCHANGED <<interp, tiles, m_loadPhaseDefinitions, m_basicGeometryKinds, run,
                   frame, simple>>

\* getMatchingTechniques(env) of the evaluator the constructor returned;
\* returned keeps what the earlier calls returned for each environment
GetMatchingTechniques ==
    /\ evaluator.op \in {"new", "getMatchingTechniques"}
    /\ evaluator.w.raised = ""
    /\ \E env \in Envs(evaluator.w.styleSet) :
          \E w \in {getMatchingTechniques(evaluator.w, env)} :
              evaluator' =
                  [op |-> "getMatchingTechniques", env |-> env, theme |-> evaluator.theme,
                   returned |-> IF evaluator.op = "getMatchingTechniques"
                                THEN (evaluator.env :> evaluator.w.result) @@ evaluator.returned
                                ELSE evaluator.returned,
                   w |-> [w EXCEPT !.ret = FALSE, !.technique = <<>>]]
    /\ UNCHANGED <<interp, tiles, m_loadPhaseDefinitions, m_basicGeometryKinds, run,
                   frame, simple>>

NextStyle ==
    \/ Construct
    \/ GetMatchingTechniques

SpecStyle == InitStyle /\ [][NextStyle]_vars

\* Two evaluators over one StyleSet object: w is the first instance, second the
\* one constructed after it, instances counts the constructors that have run and
\* by names the instance of the last call. The styles are one object that both
\* instances read and write, so what a call of one writes to them is copied to
\* the other.
InitShared ==
    /\ \E styleSet \in StyleSetsOf(SmallShapes, MatchChoices \cup GroupChoices),
          validate \in BOOLEAN :
          evaluator = [op |-> "init", env |-> {}, returned |-> [e \in {} |-> <<>>],
                       theme |-> styleSet, instances |-> 0, by |-> 0,
                       w |-> NewStyleSetEvaluator(styleSet, validate),
                       second |-> NewStyleSetEvaluator(styleSet, validate)]
    /\ interp = NoInterp
    /\ tiles = <<>>
    /\ run = <<>>
    /\ simple = <<>>
    /\ m_loadPhaseDefinitions = <<>>
    /\ m_basicGeometryKinds = {}
    /\ frame = NoFrame

\* const first = new StyleSetEvaluator(styleSet, validate)
ConstructFirst ==
    /\ evaluator.instances = 0
    /\ \E w \in {constructor(evaluator.w)} :
          evaluator' = [evaluator EXCEPT !.op = "new", !.by = 1, !.instances = 1, !.w = w,
                                         !.second.styleSet = w.styleSet]
    /\ UNCHANGED <<interp, tiles, m_loadPhaseDefinitions, m_basicGeometryKinds, run,
                   frame, simple>>

\* const second = new StyleSetEvaluator(styleSet, validate), over the styles as
\* the first instance has left them
ConstructSecond ==
    /\ evaluator.instances = 1
    /\ evaluator.w.raised = ""
    /\ \E w \in {constructor(NewStyleSetEvaluator(evaluator.w.styleSet, evaluator.w.validate))} :
          evaluator' = [evaluator EXCEPT !.op = "new", !.by = 2, !.instances = 2,
                                         !.second = w, !.w.styleSet = w.styleSet]
    /\ UNCHANGED <<interp, tiles, m_loadPhaseDefinitions, m_basicGeometryKinds, run,
                   frame, simple>>

\* first.getMatchingTechniques(env)
FirstGetMatchingTechniques ==
    /\ evaluator.instances >= 1
    /\ evaluator.w.raised = "" /\ evaluator.second.raised = ""
    /\ \E env \in Envs(evaluator.w.styleSet) :
          \E w \in {getMatchingTechniques(evaluator.w, env)} :
              evaluator' =
                  [evaluator EXCEPT !.op = "getMatchingTechniques", !.by = 1, !.env = env,
                                    !.w = [w EXCEPT !.ret = FALSE, !.technique = <<>>],
                                    !.second.styleSet = w.styleSet]
    /\ UNCHANGED <<interp, tiles, m_loadPhaseDefinitions, m_basicGeometryKinds, run,
                   frame, simple>>

\* second.getMatchingTechniques(env)
SecondGetMatchingTechniques ==
    /\ evaluator.instances = 2
    /\ evaluator.w.raised = "" /\ evaluator.second.raised = ""
    /\ \E env \in Envs(evaluator.second.styleSet) :
          \E w \in {getMatchingTechniques(evaluator.second, env)} :
              evaluator' =
                  [evaluator EXCEPT !.op = "getMatchingTechniques", !.by = 2, !.env = env,
                                    !.second = [w EXCEPT !.ret = FALSE, !.technique = <<>>],
                                    !.w.styleSet = w.styleSet]
    /\ UNCHANGED <<interp, tiles, m_loadPhaseDefinitions, m_basicGeometryKinds, run,
                   frame, simple>>

NextShared ==
    \/ ConstructFirst
    \/ ConstructSecond
    \/ FirstGetMatchingTechniques
    \/ SecondGetMatchingTechniques

SpecShared == InitShared /\ [][NextShared]_vars

----------------------------------------------------------------------------
(* Properties of one PhasedTileGeometryLoader, checked under Spec *)

\* what update() can change of a loader and its tile
LoaderState(s) ==
    <<s.decodedTile, s.hasGeometry, s.m_decodedTile, s.m_isFinished,
      s.m_geometryKindsLoaded, s.m_currentPhaseIndex, s.backend, s.removeCalls>>

\* the loader of t is new, its tile is cacheable and had its DecodedTile from the
\* start, and nothing but update() has been called on it: run[t] calls so far
UndisturbedRun(t) ==
    /\ run[t] >= 0
    /\ tiles[t].cacheable
    /\ tiles[t].delivered = 1
    /\ numberOfPhases >= 1

C1_RunState ==
    \A t \in Tiles :
        UndisturbedRun(t) =>
            /\ currentPhase(tiles[t]) = IF run[t] < numberOfPhases THEN run[t] ELSE numberOfPhases
            /\ allGeometryLoaded(tiles[t]) <=> run[t] >= numberOfPhases
            /\ run[t] >= 1 => (tiles[t].ret <=> run[t] <= numberOfPhases)

C1_LaterUpdateIsNoOp ==
    \A t \in Tiles :
        (UndisturbedRun(t) /\ run[t] >= numberOfPhases /\ run'[t] = run[t] + 1) =>
            /\ LoaderState(tiles'[t]) = LoaderState(tiles[t])
            /\ ~tiles'[t].ret

\* C1: on a cacheable tile that holds its DecodedTile, with N >= 1 phases and
\* nothing but update() called, the k-th update() (k <= N) returns true and leaves
\* the cursor at k, allGeometryLoaded is true exactly from the N-th call on, and
\* every later update() returns false and changes nothing of the loader.
C1_NUpdatesLoadAll == [](C1_RunState) /\ [][C1_LaterUpdateIsNoOp]_vars

C1_Witness ==
    \E t \in Tiles :
        /\ UndisturbedRun(t)
        /\ run[t] = numberOfPhases + 1
        /\ allGeometryLoaded(tiles[t])
        /\ ~tiles[t].ret

\* C3 as stated: in every state allGeometryLoaded implies basicGeometryLoaded.
C3_AllImpliesBasic ==
    \A t \in Tiles : allGeometryLoaded(tiles[t]) => basicGeometryLoaded(tiles[t])

\* C3 amended: on a cacheable tile whose phase list contains every basic kind,
\* allGeometryLoaded implies basicGeometryLoaded in every state.
C3_AllImpliesBasicWhenCovered ==
    \A t \in Tiles :
        (tiles[t].cacheable /\ m_basicGeometryKinds \subseteq PhaseKinds(numberOfPhases)) =>
            (allGeometryLoaded(tiles[t]) => basicGeometryLoaded(tiles[t]))

C3_Witness ==
    \E t \in Tiles :
        /\ tiles[t].cacheable
        /\ m_basicGeometryKinds # {}
        /\ m_basicGeometryKinds \subseteq PhaseKinds(numberOfPhases)
        /\ tiles[t].captures >= 2
        /\ allGeometryLoaded(tiles[t])
        /\ basicGeometryLoaded(tiles[t])

\* C4: the first update() on a tile of a data source that is not cacheable, with or
\* without a DecodedTile, returns false and leaves allGeometryLoaded true and the
\* set of loaded kinds empty.
C4_NonCacheableLoadsNothing ==
    \A t \in Tiles :
        (~tiles[t].cacheable /\ run[t] = 1) =>
            /\ allGeometryLoaded(tiles[t])
            /\ tiles[t].m_geometryKindsLoaded = {}
            /\ ~tiles[t].ret

C4_Witness ==
    \E t \in Tiles :
        /\ ~tiles[t].cacheable
        /\ run[t] = 1
        /\ numberOfPhases >= 1
        /\ tiles[t].m_decodedTile # Undefined
        /\ allGeometryLoaded(tiles[t])

\* C5 as stated: after one update() on a tile of a data source that is not
\* cacheable, isFinished is true, no kind is built and the geometry creator was
\* not called.
C5_NonCacheableIsFinished ==
    \A t \in Tiles :
        (~tiles[t].cacheable /\ run[t] = 1) =>
            /\ isFinished(tiles[t])
            /\ tiles[t].m_geometryKindsLoaded = {}
            /\ tiles[t].backend = << >>

\* C6: on a cacheable tile the set of loaded kinds is the union of the phases before
\* the cursor, which is the number of update() calls that returned true for the
\* captured DecodedTile, and basicGeometryLoaded is true exactly when that union
\* contains every basic kind; with phases [[Background],[Lines],[Buildings]] and
\* basic kinds {Background}, basicGeometryLoaded is true and allGeometryLoaded false
\* after the 1st update(), and both are true after the 3rd.
C6_LoadedKindsArePhasesDone ==
    \A t \in Tiles :
        /\ tiles[t].cacheable =>
              /\ tiles[t].m_geometryKindsLoaded = PhaseKinds(currentPhase(tiles[t]))
              /\ basicGeometryLoaded(tiles[t])
                    <=> m_basicGeometryKinds \subseteq PhaseKinds(currentPhase(tiles[t]))
        /\ (UndisturbedRun(t) /\ run[t] <= numberOfPhases) =>
              tiles[t].m_geometryKindsLoaded = PhaseKinds(run[t])
        /\ ( /\ UndisturbedRun(t)
             /\ m_loadPhaseDefinitions = << <<"Background">>, <<"Lines">>, <<"Buildings">> >>
             /\ m_basicGeometryKinds = {"Background"} ) =>
              /\ run[t] = 1 =>
                    basicGeometryLoaded(tiles[t]) /\ ~allGeometryLoaded(tiles[t])
              /\ run[t] = 3 =>
                    basicGeometryLoaded(tiles[t]) /\ allGeometryLoaded(tiles[t])

C6_Witness ==
    \E t \in Tiles :
        /\ UndisturbedRun(t)
        /\ m_loadPhaseDefinitions = << <<"Background">>, <<"Lines">>, <<"Buildings">> >>
        /\ m_basicGeometryKinds = {"Background"}
        /\ run[t] = 3
        /\ tiles[t].m_geometryKindsLoaded = {"Background", "Lines", "Buildings"}

----------------------------------------------------------------------------
(* Properties of PhasedTileGeometryManager.updateTiles(), checked under *)
(* SpecManager                                                           *)

\* the tiles of a list that have a loader
Loaders(ts, list) == {t \in Range(list) : ts[t].hasLoader}

Max(S) == CHOOSE x \in S : \A y \in S : y <= x

Min(S) == CHOOSE x \in S : \A y \in S : x <= y

Cursors(ts, list) == {currentPhase(ts[t]) : t \in Loaders(ts, list)}

\* largest minus smallest currentPhase over the loaders of a list
Spread(ts, list) ==
    IF Loaders(ts, list) = {} THEN 0 ELSE Max(Cursors(ts, list)) - Min(Cursors(ts, list))

\* the tile or its loader holds a DecodedTile
HoldsData(s) == s.m_decodedTile # Undefined \/ s.decodedTile # Undefined

StaticFrameDone == frame.op = "updateTiles" /\ ~frame.dynamic

DynamicFrameDone == frame.op = "updateTiles" /\ frame.dynamic

\* C2 as stated: after a static frame the cursors of the loaders of the tiles
\* passed to it differ by at most 1.
C2_StaticSpreadAtMostOne ==
    StaticFrameDone => Spread(tiles, frame.list) <= 1

C2_StaticFrameKeepsSpread ==
    (StaticFrameDone' /\ Spread(tiles, frame'.list) <= 1
        /\ \A t \in Loaders(tiles, frame'.list) : tiles[t].cacheable)
    => Spread(tiles', frame'.list) <= 1

\* C2 amended: a static frame over tiles of cacheable data sources whose cursors
\* differ by at most 1 before the frame leaves them differing by at most 1.
C2_StaticKeepsCacheableTogether == [][C2_StaticFrameKeepsSpread]_vars

C2_Witness ==
    /\ StaticFrameDone
    /\ Len(frame.list) = NumTiles
    /\ \A t \in Range(frame.list) : tiles[t].cacheable /\ tiles[t].hasLoader
    /\ Cardinality(frame.worked) >= 2
    /\ Spread(tiles, frame.list) = 1

C7_DynamicFrameStep ==
    DynamicFrameDone' =>
        LET list == frame'.list
            v    == frame'.visited
        IN  /\ \A t \in Tiles : tiles'[t].updateCalls <= 1
            /\ \A i \in 1..Len(list) :
                  tiles'[list[i]].updateCalls =
                      IF i <= v /\ tiles[list[i]].hasLoader THEN 1 ELSE 0
            /\ \A t \in Tiles :
                  tiles'[t].updateCalls = 0 => LoaderState(tiles'[t]) = LoaderState(tiles[t])
            /\ frame'.worked = {t \in Tiles : tiles'[t].updateCalls = 1 /\ tiles'[t].ret}
            /\ Cardinality(frame'.worked) <= m_maximumUpdatesPerFrame
            /\ v < Len(list) =>
                  /\ Cardinality(frame'.worked) = m_maximumUpdatesPerFrame
                  /\ list[v] \in frame'.worked
            /\ \A t \in frame'.worked :
                  currentPhase(tiles'[t]) =
                      1 + (IF tiles'[t].captures # tiles[t].captures
                           THEN 0 ELSE currentPhase(tiles[t]))

C8_StaticFrameIsCapped ==
    StaticFrameDone =>
        Cardinality(frame.changed \cap frame.worked) <= m_maximumUpdatesPerFrame

C8_StaticFrameStep ==
    (StaticFrameDone' /\ Loaders(tiles, frame'.list) # {}
        /\ Min(Cursors(tiles, frame'.list)) < numberOfPhases)
    => /\ frame'.visited = Len(frame'.list)
       /\ \A t \in Loaders(tiles, frame'.list) :
             (tiles[t].cacheable /\ HoldsData(tiles[t])
                 /\ currentPhase(tiles[t]) = Min(Cursors(tiles, frame'.list)))
             => t \in frame'.changed

\* C8 amended: the budget is not applied in a static frame: the loop goes through
\* the whole list and changes the cursor of every loader at the lowest phase whose
\* tile is cacheable and holds a DecodedTile, however many they are.
C8_StaticFrameIsNotCapped == [][C8_StaticFrameStep]_vars

C8_Witness ==
    /\ StaticFrameDone
    /\ Cardinality(frame.changed) > m_maximumUpdatesPerFrame
    /\ Cardinality(frame.worked) > m_maximumUpdatesPerFrame

C9_StaticFrameStep ==
    (StaticFrameDone' /\ Loaders(tiles, frame'.list) # {}) =>
        LET list == frame'.list
            m    == Min(Cursors(tiles, list))
        IN  IF m < numberOfPhases
            THEN /\ frame'.visited = Len(list)
                 /\ \A t \in Loaders(tiles, list) :
                       /\ (tiles[t].cacheable /\ HoldsData(tiles[t])
                             /\ currentPhase(tiles[t]) = m)
                          => currentPhase(tiles'[t]) = m + 1
                       /\ currentPhase(tiles[t]) >= m + 1
                          => /\ LoaderState(tiles'[t]) = LoaderState(tiles[t])
                             /\ tiles'[t].updateCalls = 0
            ELSE \A t \in Tiles :
                    /\ LoaderState(tiles'[t]) = LoaderState(tiles[t])
                    /\ tiles'[t].updateCalls = 0

\* C9: in a static frame with lowest cursor m over the loaders of the passed tiles:
\* if m < N the whole list is gone through, every loader at m whose tile is
\* cacheable and holds a DecodedTile ends at m + 1 and every loader at m + 1 or
\* more is left as it was; if m = N no loader is updated.
C9_StaticFrameAdvancesLowest == [][C9_StaticFrameStep]_vars

C9_Witness ==
    /\ StaticFrameDone
    /\ frame.worked # {}
    /\ \E t \in frame.worked, u \in Range(frame.list) :
          /\ tiles[u].hasLoader
          /\ tiles[u].updateCalls = 0
          /\ currentPhase(tiles[u]) = currentPhase(tiles[t])
          /\ ~allGeometryLoaded(tiles[u])

\* C10: updateTiles() calls mapView.update() once when the loader of a passed tile
\* has allGeometryLoaded false after the pass and not at all when none has; the
\* loader of a tile of a data source that is not cacheable has allGeometryLoaded
\* true once the frame, dynamic or static, has called its update().
C10_FrameRequestedIffUnfinished ==
    frame.op = "updateTiles" =>
        /\ frame.requests =
              IF \E t \in Loaders(tiles, frame.list) : ~allGeometryLoaded(tiles[t])
              THEN 1 ELSE 0
        /\ \A t \in Loaders(tiles, frame.list) :
              (~tiles[t].cacheable /\ tiles[t].updateCalls >= 1)
              => allGeometryLoaded(tiles[t])

C10_Witness ==
    /\ frame.op = "updateTiles"
    /\ frame.requests = 0
    /\ \E t \in Loaders(tiles, frame.list) :
          ~tiles[t].cacheable /\ tiles[t].updateCalls >= 1 /\ ~isFinished(tiles[t])
    /\ \E t \in Loaders(tiles, frame.list) : tiles[t].cacheable

----------------------------------------------------------------------------
(* Properties of the SimpleTileGeometryLoader, checked under SpecSimple *)

\* the step is the deferred build step of tile t
TimeoutStep(t) == frame'.op = "timeout" /\ frame'.tile = t

\* C11: a SimpleTileGeometryLoader is finished only when all geometry has been
\* built: isFinished (which basicGeometryLoaded and allGeometryLoaded return
\* too) is false as long as no deferred step of the loader has run
\* createAllGeometries, also when the build was dropped.
C11_FinishedOnlyWhenBuilt ==
    \A t \in SimpleTiles :
        (\/ Simple_isFinished(simple[t])
         \/ Simple_basicGeometryLoaded(simple[t])
         \/ Simple_allGeometryLoaded(simple[t])) => simple[t].builds # <<>>

\* C12: a deferred build step that runs when the tile is disposed builds no
\* geometry for the tile, visible or not.
C12_TimeoutOnDisposedTile ==
    \A t \in SimpleTiles :
        (TimeoutStep(t) /\ simple[t].disposed) => simple'[t].builds = simple[t].builds

C12_DisposedTileIsNotBuilt == [][C12_TimeoutOnDisposedTile]_vars

\* C13: a deferred build step that finds its tile invisible builds nothing,
\* calls visibleTileSet.disposeTile once, and leaves nothing behind that would
\* build the dropped DecodedTile later: no timer, no retained reference.
C13_TimeoutOnInvisibleTile ==
    \A t \in SimpleTiles :
        (TimeoutStep(t) /\ ~simple[t].isVisible) =>
            /\ simple'[t].builds = simple[t].builds
            /\ simple'[t].evictions = Append(simple[t].evictions, frame'.arg)
            /\ frame'.arg \notin Range(simple'[t].pending)
            /\ simple'[t].m_decodedTile = Undefined
            /\ simple'[t].decodedTile = simple[t].decodedTile
            /\ simple'[t].m_isFinished = simple[t].m_isFinished

\* a DecodedTile dropped by a deferred step is never built and never pending
C13_DroppedIsNeverBuilt ==
    \A t \in SimpleTiles :
        /\ Range(simple[t].evictions) \cap Range(simple[t].builds) = {}
        /\ Range(simple[t].evictions) \cap Range(simple[t].pending) = {}
        /\ Len(simple[t].evictions) = Cardinality(Range(simple[t].evictions))

C13_InvisibleTileIsEvictedOnce ==
    [](C13_DroppedIsNeverBuilt) /\ [][C13_TimeoutOnInvisibleTile]_vars

\* a deferred step dropped the build of a tile that was visible when update()
\* took the DecodedTile, and a later DecodedTile of the tile has been built
C13_Witness ==
    \E t \in SimpleTiles :
        /\ simple[t].evictions # <<>>
        /\ simple[t].builds # <<>>
        /\ simple[t].evictions[1] < simple[t].builds[1]

----------------------------------------------------------------------------
(* Properties of the loaders across deliveries, update() and dispose() *)

\* no two entries of the sequence are equal
NoRepeat(seq) == \A i, j \in DOMAIN seq : i # j => seq[i] # seq[j]

\* C14: geometry is built at most once per delivered DecodedTile: no loader
\* calls the same geometry creator operation for the same kind with the same
\* DecodedTile twice, whatever update(), updateToPhase() and dispose() calls
\* and deliveries came before.
C14_BuiltOncePerDelivery ==
    /\ \A t \in Tiles : NoRepeat(tiles[t].backend)
    /\ \A t \in SimpleTiles : NoRepeat(simple[t].builds)

\* the step is an update() call on the loader of tile t
UpdateStep(t) == frame'.op = "update" /\ frame'.tile = t

\* the geometry creator calls made by the step on tile t
NewCalls(t) == SubSeq(tiles'[t].backend, Len(tiles[t].backend) + 1, Len(tiles'[t].backend))

\* C15: when the tile holds a DecodedTile that is not the one the loader
\* retains (it replaced the old one before, during or after loading), the next
\* update() captures it, restarts at phase 0 with no kind loaded, and builds
\* from the new DecodedTile only.
C15_UpdateWithNewData ==
    \A t \in Tiles :
        (/\ UpdateStep(t)
         /\ tiles[t].cacheable
         /\ tiles[t].decodedTile # Undefined
         /\ tiles[t].decodedTile # tiles[t].m_decodedTile) =>
            /\ tiles'[t].captures = tiles[t].captures + 1
            /\ currentPhase(tiles'[t]) <= 1
            /\ tiles'[t].m_geometryKindsLoaded \subseteq PhaseKinds(currentPhase(tiles'[t]))
            /\ \A e \in Range(NewCalls(t)) : e[3] = tiles[t].decodedTile

C15_NewDataIsCaptured == [][C15_UpdateWithNewData]_vars

\* the update() call of the step moved the cursor of tile t to N, from a lower
\* phase or from the phase 0 it had just been reset to
AdvancesToEnd(t) ==
    /\ numberOfPhases > 0
    /\ currentPhase(tiles'[t]) = numberOfPhases
    /\ \/ currentPhase(tiles[t]) < numberOfPhases
       \/ tiles'[t].captures > tiles[t].captures

\* C16: the update() call that moves the cursor to N sets isFinished, clears
\* the loader's DecodedTile reference and calls tile.removeDecodedTile() once;
\* an update() call that does not move the cursor to N does none of these.
C16_UpdateFinishes ==
    \A t \in Tiles :
        UpdateStep(t) =>
            IF AdvancesToEnd(t)
            THEN /\ isFinished(tiles'[t])
                 /\ tiles'[t].m_decodedTile = Undefined
                 /\ tiles'[t].removeCalls = tiles[t].removeCalls + 1
            ELSE /\ isFinished(tiles'[t]) = isFinished(tiles[t])
                 /\ tiles'[t].removeCalls = tiles[t].removeCalls
                 /\ tiles'[t].m_decodedTile = Undefined =>
                        tiles[t].m_decodedTile = Undefined /\ tiles[t].decodedTile = Undefined

C16_FinishExactlyAtEnd == [][C16_UpdateFinishes]_vars

\* C17 as claimed: finished is terminal, and a finished loader has all its
\* geometry loaded (any loader, any reachable state).
C17_FinishedImpliesAllLoaded ==
    /\ \A t \in Tiles : isFinished(tiles[t]) => allGeometryLoaded(tiles[t])
    /\ \A t \in SimpleTiles : Simple_isFinished(simple[t]) => Simple_allGeometryLoaded(simple[t])

\* C17: isFinished never goes back to false on either loader; a Simple loader
\* that is finished has allGeometryLoaded; a Phased loader has allGeometryLoaded
\* when it becomes finished and keeps it until it captures a DecodedTile again.
C17_FinishedStep ==
    /\ \A t \in Tiles :
          /\ isFinished(tiles[t]) => isFinished(tiles'[t])
          /\ (~isFinished(tiles[t]) /\ isFinished(tiles'[t])) => allGeometryLoaded(tiles'[t])
          /\ (/\ isFinished(tiles[t])
              /\ allGeometryLoaded(tiles[t])
              /\ tiles'[t].captures = tiles[t].captures) => allGeometryLoaded(tiles'[t])
    /\ \A t \in SimpleTiles :
          /\ Simple_isFinished(simple[t]) => Simple_isFinished(simple'[t])
          /\ Simple_isFinished(simple'[t]) => Simple_allGeometryLoaded(simple'[t])

C17_FinishedIsTerminal == [][C17_FinishedStep]_vars

\* a loader that finished one DecodedTile, was disposed and finished a second one
C17_Witness ==
    \E t \in Tiles :
        /\ isFinished(tiles[t])
        /\ allGeometryLoaded(tiles[t])
        /\ tiles[t].removeCalls >= 2
        /\ tiles[t].disposes >= 1

\* the step is a dispose() call on the loader of tile t
DisposeStep(t) == frame'.op = "dispose" /\ frame'.tile = t

\* C18: dispose() clears the retained DecodedTile reference of the loader and
\* changes nothing else of the loader or its tile (cursor, loaded kinds,
\* isFinished, tile.decodedTile, calls made); on a loader that retains no
\* DecodedTile, as after a first dispose(), it changes nothing at all.
C18_DisposeStep ==
    /\ \A t \in Tiles :
          DisposeStep(t) =>
              /\ tiles'[t].m_decodedTile = Undefined
              /\ [tiles'[t] EXCEPT !.disposes = 0]
                    = [tiles[t] EXCEPT !.m_decodedTile = Undefined, !.disposes = 0]
              /\ LoaderState(dispose(tiles'[t])) = LoaderState(tiles'[t])
              /\ tiles[t].m_decodedTile = Undefined => tiles'[t] = tiles[t]
    /\ \A t \in SimpleTiles :
          DisposeStep(t) =>
              /\ simple'[t].m_decodedTile = Undefined
              /\ simple'[t] = [simple[t] EXCEPT !.m_decodedTile = Undefined]
              /\ Simple_dispose(simple'[t]) = simple'[t]

C18_DisposeOnlyClearsReference == [][C18_DisposeStep]_vars

\* a dispose() call on a loader that was disposed while loading: it holds no
\* DecodedTile any more, has phases done and is not finished
C18_Witness ==
    \E t \in Tiles :
        /\ frame.op = "dispose" /\ frame.tile = t /\ frame.arg = 0
        /\ tiles[t].disposes = 1
        /\ tiles[t].decodedTile # Undefined
        /\ currentPhase(tiles[t]) > 0
        /\ tiles[t].m_geometryKindsLoaded # {}
        /\ ~isFinished(tiles[t])

----------------------------------------------------------------------------
(* Properties of both managers, checked under SpecManagers *)

\* the step is an updateTiles(list) call of a manager
FrameStep == frame'.op = "updateTiles"

\* the loader of a SimpleTileGeometryLoader tile and what it has scheduled and built
SimpleLoaderState(s) ==
    <<s.m_decodedTile, s.m_isFinished, s.pending, s.builds, s.evictions, s.decodedTile>>

\* C19: updateTiles(list) leaves the loader of every tile that is not in the
\* list unchanged; a loader keeps its cursor and its loaded kinds through every
\* step in which its tile is not passed (the tile left the view, a DecodedTile
\* arrived, another tile got its loader), and in a frame in which its tile is
\* passed again it goes on from them: the cursor does not go down and no kind
\* is removed, unless the loader captures a DecodedTile in that frame.
C19_FrameStep ==
    /\ \A t \in Tiles :
          /\ (FrameStep /\ t \notin Range(frame'.list)) =>
                LoaderState(tiles'[t]) = LoaderState(tiles[t])
          /\ ~FrameStep =>
                /\ currentPhase(tiles'[t]) = currentPhase(tiles[t])
                /\ tiles'[t].m_geometryKindsLoaded = tiles[t].m_geometryKindsLoaded
                /\ tiles'[t].m_decodedTile = tiles[t].m_decodedTile
                /\ isFinished(tiles'[t]) = isFinished(tiles[t])
          /\ (/\ FrameStep
              /\ t \in Range(frame'.list)
              /\ tiles'[t].captures = tiles[t].captures) =>
                /\ currentPhase(tiles'[t]) >= currentPhase(tiles[t])
                /\ tiles[t].m_geometryKindsLoaded \subseteq tiles'[t].m_geometryKindsLoaded
    /\ \A t \in SimpleTiles :
          /\ (FrameStep /\ t \notin Range(frame'.list)) => simple'[t] = simple[t]
          /\ frame'.op = "setVisible" =>
                SimpleLoaderState(simple'[t]) = SimpleLoaderState(simple[t])

C19_TilesNotPassedAreUnchanged == [][C19_FrameStep]_vars

\* a frame that did not pass a tile whose loader is in the middle of its phases
\* and that advanced a tile it passed
C19_Witness ==
    /\ frame.op = "updateTiles"
    /\ \E t \in Tiles :
          /\ t \notin Range(frame.list)
          /\ tiles[t].hasLoader
          /\ currentPhase(tiles[t]) > 0
          /\ currentPhase(tiles[t]) < numberOfPhases
          /\ tiles[t].m_geometryKindsLoaded # {}
    /\ frame.changed # {}

----------------------------------------------------------------------------
(* update() without a DecodedTile, checked under SpecLoaders *)

\* neither the tile nor its loader holds a DecodedTile
NoData(s) == s.decodedTile = Undefined /\ s.m_decodedTile = Undefined

\* C20: update() on a loader without data is a no-op. On a Phased loader of a
\* cacheable tile it returns false and changes nothing of the loader or the
\* tile and calls no geometry creator operation; on a Simple loader it changes
\* nothing and schedules no deferred build.
C20_UpdateWithoutData ==
    /\ \A t \in Tiles :
          (UpdateStep(t) /\ tiles[t].cacheable /\ NoData(tiles[t])) =>
              /\ tiles'[t].ret = FALSE
              /\ tiles'[t] = [tiles[t] EXCEPT !.ret = FALSE, !.updateCalls = 1]
    /\ \A t \in SimpleTiles :
          (UpdateStep(t) /\ NoData(simple[t])) => simple'[t] = simple[t]

C20_UpdateWithoutDataIsNoOp == [][C20_UpdateWithoutData]_vars

\* update() was called on a Phased loader of a cacheable tile that never got a
\* DecodedTile and has phases to do
C20_Witness ==
    \E t \in Tiles :
        /\ frame.op = "update" /\ frame.tile = t
        /\ tiles[t].cacheable
        /\ tiles[t].delivered = 0
        /\ numberOfPhases > 0
        /\ tiles[t].updateCalls = 1
        /\ ~tiles[t].ret

----------------------------------------------------------------------------
(* The defaults of the PhasedTileGeometryManager, checked under Spec *)

\* the loader has the phase list and the basic kinds initTile() passes on
ManagerDefaults ==
    /\ m_loadPhaseDefinitions = DefaultPhases
    /\ m_basicGeometryKinds = DefaultBasicGeometryKinds

\* C21: with the manager's default phases and basic kinds, on a cacheable tile
\* that holds its DecodedTile and with nothing but update() called,
\* basicGeometryLoaded is false after no or one update() and true from the
\* second on, and allGeometryLoaded is false up to the fourth update() and true
\* from the fifth on.
C21_DefaultsBasicAfterTwoAllAfterFive ==
    \A t \in Tiles :
        (UndisturbedRun(t) /\ ManagerDefaults) =>
            /\ basicGeometryLoaded(tiles[t]) <=> run[t] >= 2
            /\ allGeometryLoaded(tiles[t]) <=> run[t] >= 5

C21_Witness ==
    \E t \in Tiles :
        /\ UndisturbedRun(t)
        /\ ManagerDefaults
        /\ run[t] = 5
        /\ basicGeometryLoaded(tiles[t])
        /\ allGeometryLoaded(tiles[t])

----------------------------------------------------------------------------
(* Properties of property conversion and evaluation, checked under SpecProperty *)

\* the indices of the first occurrences in a sequence, in ascending order
RECURSIVE FirstOccurrencesFrom(_, _)
FirstOccurrencesFrom(seq, i) ==
    IF i > Len(seq)
    THEN <<>>
    ELSE (IF \E k \in 1..(i - 1) : seq[k] = seq[i] THEN <<>> ELSE <<i>>)
            \o FirstOccurrencesFrom(seq, i + 1)

FirstOccurrences(seq) == FirstOccurrencesFrom(seq, 1)

\* the InterpolatedProperty of a definition from which every entry that repeats
\* an earlier zoom level was taken out
ExpectedProperty(definition) ==
    LET keep == FirstOccurrences(definition.zoomLevels)
        collapsed == [definition EXCEPT
                         !.zoomLevels = [k \in 1..Len(keep) |-> definition.zoomLevels[keep[k]]],
                         !.values = [k \in 1..Len(keep) |-> definition.values[keep[k]]]]
    IN  [type |-> "interpolated",
         interpolationMode |-> IF collapsed.valueType = "boolean" /\ keep # <<>>
                               THEN "Discrete" ELSE InterpolationModeOf(collapsed),
         zoomLevels |-> collapsed.zoomLevels,
         values |-> CASE keep = <<>> -> <<>>
                      [] collapsed.valueType = "boolean" ->
                            [k \in 1..Len(keep) |-> IF collapsed.values[k] # 0 THEN 1 ELSE 0]
                      [] collapsed.valueType = "string" -> ColorChannels(collapsed.values)
                      [] OTHER -> collapsed.values]

\* C27: the InterpolatedProperty made of a definition has each distinct zoom
\* level once, in the order of first occurrence, with the value that was paired
\* with the first occurrence.
C27_FirstOccurrenceWins ==
    interp.op = "createInterpolatedProperty" =>
        /\ interp.property.zoomLevels = ExpectedProperty(interp.definition).zoomLevels
        /\ interp.property.values = ExpectedProperty(interp.definition).values

\* the property handed to getPropertyValue() is not interpolated and is no
\* definition: undefined, a number, a boolean or a string
IsPlain(property) ==
    ~isInterpolatedProperty(property) /\ ~isInterpolatedPropertyDefinition(property)

\* C30: getPropertyValue() returns a property that is not interpolated as it
\* is, undefined included, at every level, and raises an error and returns no
\* value for an interpolation definition that was not converted.
C30_PlainIsReturnedDefinitionRaises ==
    interp.op = "getPropertyValue" =>
        /\ IsPlain(interp.property) =>
               ~interp.result.raised /\ interp.result.value = interp.property
        /\ isInterpolatedPropertyDefinition(interp.property) =>
               interp.result.raised /\ "value" \notin DOMAIN interp.result

\* getPropertyValue() was called with a definition of two zoom levels
C30_Witness ==
    /\ interp.op = "getPropertyValue"
    /\ isInterpolatedPropertyDefinition(interp.property)
    /\ Len(interp.property.zoomLevels) = 2
    /\ interp.result.raised

----------------------------------------------------------------------------
(* Properties of the StyleSetEvaluator, checked under SpecStyle *)

\* getMatchingTechniques() has returned, to a call with an environment that an
\* earlier call had
RepeatedCall ==
    /\ evaluator.op = "getMatchingTechniques"
    /\ evaluator.env \in DOMAIN evaluator.returned

\* C22: a getMatchingTechniques() call returns, for an environment that an
\* earlier call of the same evaluator had, an array of the same length with the
\* identical Technique objects at the same places, whatever was called between.
C22_SameEnvSameTechniques ==
    RepeatedCall => evaluator.w.result = evaluator.returned[evaluator.env]

\* a repeated call that returned two Techniques, after a call with another
\* environment
C22_Witness ==
    /\ RepeatedCall
    /\ Len(evaluator.w.result) >= 2
    /\ \E env \in DOMAIN evaluator.returned :
          env # evaluator.env /\ evaluator.returned[env] # evaluator.w.result

\* the constructor has returned an evaluator
Constructed == evaluator.op = "new" /\ evaluator.w.raised = ""

\* the styles at i and j are members of the same renderOrderBiasGroup
SameBiasGroup(i, j) ==
    /\ evaluator.w.styleSet[i].renderOrderBiasGroup # <<>>
    /\ evaluator.w.styleSet[i].renderOrderBiasGroup
            = evaluator.w.styleSet[j].renderOrderBiasGroup

\* C23: after the constructor, all styles that share a renderOrderBiasGroup
\* have one and the same renderOrder, wherever they are in the tree and
\* whichever of them declares the bias range.
C23_GroupMembersShareOrder ==
    Constructed =>
        \A i, j \in 1..Len(evaluator.w.styleSet) :
            SameBiasGroup(i, j) =>
                evaluator.w.styleSet[i].renderOrder = evaluator.w.styleSet[j].renderOrder

\* the style at i is a leaf: it has a technique and no children
IsLeaf(i) ==
    evaluator.w.styleSet[i].styles = "undefined" /\ evaluator.w.styleSet[i].technique # <<>>

\* the style at i has an explicit render order, as a field or in attr
HasExplicitOrder(i) ==
    \/ evaluator.w.styleSet[i].renderOrder # <<>>
    \/ /\ evaluator.w.styleSet[i].attr # <<>>
       /\ "renderOrder" \in DOMAIN evaluator.w.styleSet[i].attr[1]

\* the leaves outside any bias group and without explicit render order
AutoLeaves ==
    {i \in 1..Len(evaluator.w.styleSet) :
        /\ IsLeaf(i)
        /\ evaluator.w.styleSet[i].renderOrderBiasGroup = <<>>
        /\ ~HasExplicitOrder(i)}

\* the automatically assigned render order of the style at i, if it has one
AutoOrder(i) ==
    IF /\ evaluator.w.styleSet[i].attr # <<>>
       /\ "_renderOrderAuto" \in DOMAIN evaluator.w.styleSet[i].attr[1]
    THEN <<evaluator.w.styleSet[i].attr[1]["_renderOrderAuto"].v>>
    ELSE <<>>

\* no style of the StyleSet is in a bias group or has an explicit render order
NoGroupsNoExplicitOrders ==
    \A i \in 1..Len(evaluator.w.styleSet) :
        evaluator.w.styleSet[i].renderOrderBiasGroup = <<>> /\ ~HasExplicitOrder(i)

\* C24: after the constructor every leaf outside any bias group and without
\* explicit render order has an automatically assigned render order, these
\* orders strictly increase in document order, and in a tree without bias
\* groups and explicit render orders the k-th leaf (k = 0, 1, 2, ...) has
\* exactly k.
C24_AutoOrdersIncrease ==
    Constructed =>
        /\ \A i \in AutoLeaves : AutoOrder(i) # <<>>
        /\ \A i, j \in AutoLeaves :
              i < j /\ AutoOrder(i) # <<>> /\ AutoOrder(j) # <<>>
                  => AutoOrder(i)[1] < AutoOrder(j)[1]
        /\ NoGroupsNoExplicitOrders =>
              \A i \in AutoLeaves :
                  AutoOrder(i) # <<>> =>
                      AutoOrder(i)[1] = Cardinality({j \in AutoLeaves : j < i})

RECURSIVE Matches(_, _)

\* the predicate of the style at i and the predicates of all its ancestors hold
\* for env
Matches(i, env) ==
    /\ evaluator.w.styleSet[i].when # <<>> => Evaluate(evaluator.w.styleSet[i].when[1], env)
    /\ evaluator.w.styleSet[i].parent # 0 => Matches(evaluator.w.styleSet[i].parent, env)

\* the matching styles marked final
MatchingFinals(env) ==
    {i \in 1..Len(evaluator.w.styleSet) : Matches(i, env) /\ evaluator.w.styleSet[i].final}

RECURSIVE IsWithin(_, _)

\* the style at i is the style at f or one of its descendants
IsWithin(i, f) ==
    i = f \/ (evaluator.w.styleSet[i].parent # 0 /\ IsWithin(evaluator.w.styleSet[i].parent, f))

\* the matching leaves up to and including the first matching style marked
\* final
LeavesUpToFinal(env) ==
    {i \in 1..Len(evaluator.w.styleSet) :
        /\ IsLeaf(i)
        /\ Matches(i, env)
        /\ \A f \in MatchingFinals(env) : i <= f}

\* the same where a group marked final ends the walk after the styles below
\* it
LeavesUpToFinalGroup(env) ==
    {i \in 1..Len(evaluator.w.styleSet) :
        /\ IsLeaf(i)
        /\ Matches(i, env)
        /\ \A f \in MatchingFinals(env) : i <= f \/ IsWithin(i, f)}

\* the Technique of the leaf at i: the entry of m_techniques at its _index
TechniqueOf(i) ==
    IF /\ evaluator.w.styleSet[i]._index # <<>>
       /\ evaluator.w.styleSet[i]._index[1] < Len(evaluator.w.m_techniques)
    THEN <<evaluator.w.m_techniques[evaluator.w.styleSet[i]._index[1] + 1]>>
    ELSE <<>>

\* the Techniques of the leaves in document order
TechniquesOf(leaves) ==
    [k \in 1..Cardinality(leaves) |->
        TechniqueOf(CHOOSE i \in leaves : Cardinality({j \in leaves : j < i}) = k - 1)]

\* getMatchingTechniques() has returned
Returned == evaluator.op = "getMatchingTechniques" /\ evaluator.w.raised = ""

\* C25: getMatchingTechniques(env) returns, in document order, the Technique
\* of every leaf whose predicate and whose ancestors' predicates hold for env,
\* up to and including the first matching style marked final, and no Technique
\* of a style later in document order than that style; where that style is a
\* group, the walk may end before or after the styles of the group.
C25_MatchingLeavesUpToFinal ==
    Returned =>
        \/ evaluator.w.result = TechniquesOf(LeavesUpToFinal(evaluator.env))
        \/ evaluator.w.result = TechniquesOf(LeavesUpToFinalGroup(evaluator.env))

\* the styles on the path from the root to the style at i, the style included
PathTo(i) == {j \in 1..Len(evaluator.w.styleSet) : IsWithin(i, j)}

\* the style at j defines the attribute key: in attr, or as one of the fields
\* that become attributes of the Technique
Defines(j, key) ==
    \/ /\ evaluator.w.styleSet[j].attr # <<>>
       /\ key \in DOMAIN evaluator.w.styleSet[j].attr[1]
    \/ /\ key \in StyleFields
       /\ styleField(evaluator.w.styleSet[j], key) # <<>>

\* the value the style at j gives the attribute key, a definition as the
\* InterpolatedProperty made of it
ValueFrom(j, key) ==
    IF /\ evaluator.w.styleSet[j].attr # <<>>
       /\ key \in DOMAIN evaluator.w.styleSet[j].attr[1]
    THEN convertedAttr(evaluator.w.styleSet[j].attr[1])[key].result
    ELSE styleFieldValue(evaluator.w.styleSet[j], key)

\* the deepest style on the path to the leaf at i that defines key
DeepestDefining(i, key) ==
    CHOOSE j \in PathTo(i) :
        Defines(j, key) /\ \A k \in PathTo(i) : Defines(k, key) => k <= j

\* the leaves for which a Technique was built
BuiltLeaves == {i \in 1..Len(evaluator.w.styleSet) : IsLeaf(i) /\ TechniqueOf(i) # <<>>}

\* the Technique object built for the leaf at i
BuiltTechnique(i) == evaluator.w.objects[TechniqueOf(i)[1]]

\* the attribute keys of a Technique: all but its name and its cache index
AttributeKeys(technique) == DOMAIN technique \ {"name", "_index"}

\* C26: the Technique built for a leaf has the leaf's technique id as its
\* name, has an attribute for exactly the keys that the styles on the path from
\* the root to the leaf define, and has for each key the value of the deepest
\* style on that path that defines it.
C26_DeepestStyleWins ==
    \A i \in BuiltLeaves :
        /\ BuiltTechnique(i)["name"] = JsString(evaluator.w.styleSet[i].technique[1])
        /\ AttributeKeys(BuiltTechnique(i))
                = {key \in AttributeKeys(BuiltTechnique(i)) \cup StyleFields
                                \cup {"color", "lineWidth", "_renderOrderAuto"} :
                       \E j \in PathTo(i) : Defines(j, key)}
        /\ \A key \in AttributeKeys(BuiltTechnique(i)) :
              (\E j \in PathTo(i) : Defines(j, key))
                  => BuiltTechnique(i)[key] = ValueFrom(DeepestDefining(i, key), key)

\* a Technique with the color of its leaf, not the other color of the parent,
\* with the lineWidth of the parent, and not the lineWidth of a style that is
\* not on its path
C26_Witness ==
    \E i \in BuiltLeaves :
        /\ evaluator.w.styleSet[i].parent # 0
        /\ Defines(i, "color")
        /\ Defines(evaluator.w.styleSet[i].parent, "color")
        /\ ValueFrom(i, "color") # ValueFrom(evaluator.w.styleSet[i].parent, "color")
        /\ BuiltTechnique(i)["color"] = ValueFrom(i, "color")
        /\ ~Defines(i, "lineWidth")
        /\ BuiltTechnique(i)["lineWidth"] = ValueFrom(evaluator.w.styleSet[i].parent, "lineWidth")
        /\ \E s \in 1..Len(evaluator.w.styleSet) \ PathTo(i) :
              /\ Defines(s, "lineWidth")
              /\ ValueFrom(s, "lineWidth").type # BuiltTechnique(i)["lineWidth"].type

\* the style at i was written with an explicit renderOrder and with a
\* renderOrderBiasGroup, and the group has an order
ExplicitOrderInGroup(i) ==
    /\ evaluator.theme[i].renderOrder # <<>>
    /\ evaluator.theme[i].renderOrderBiasGroup # <<>>
    /\ evaluator.theme[i].renderOrderBiasGroup[1] \in DOMAIN evaluator.w.m_renderOrderBiasGroups

\* the order of the bias group of the style at i
GroupOrder(i) ==
    evaluator.w.m_renderOrderBiasGroups[evaluator.theme[i].renderOrderBiasGroup[1]]

\* C28: a style written with both an explicit renderOrder and a
\* renderOrderBiasGroup has, once the evaluator is constructed, the order of
\* the group as its renderOrder, a warning was logged for it, and the Technique
\* built for it has the order of the group as its renderOrder.
C28_GroupOrderReplacesExplicit ==
    evaluator.op \in {"new", "getMatchingTechniques"} /\ evaluator.w.raised = "" =>
        \A i \in 1..Len(evaluator.w.styleSet) :
            ExplicitOrderInGroup(i) =>
                /\ evaluator.w.styleSet[i].renderOrder = <<GroupOrder(i)>>
                /\ <<"warn", "style.renderOrder will be overridden", i>> \in evaluator.w.log
                /\ i \in BuiltLeaves =>
                      BuiltTechnique(i)["renderOrder"] = JsNumber(GroupOrder(i))

\* the matching leaves up to and including the first matching leaf marked
\* final
LeavesUpToFinalLeaf(env) ==
    {i \in 1..Len(evaluator.w.styleSet) :
        /\ IsLeaf(i)
        /\ Matches(i, env)
        /\ \A f \in MatchingFinals(env) : IsLeaf(f) => i <= f}

\* C29: with validation, over a StyleSet in which a style has a child list
\* that is no array or has neither children nor a technique, neither the
\* constructor nor getMatchingTechniques() raises, and getMatchingTechniques()
\* returns the Techniques of the matching leaves and nothing for such a style.
C29_MalformedStylesAreSkipped ==
    evaluator.w.validate /\ evaluator.op \in {"new", "getMatchingTechniques"} =>
        /\ evaluator.w.raised = ""
        /\ evaluator.op = "getMatchingTechniques" =>
              evaluator.w.result = TechniquesOf(LeavesUpToFinalLeaf(evaluator.env))

----------------------------------------------------------------------------
(* Per-kind dispatch of PhasedTileGeometryLoader.createKind(), checked under Spec *)

\* the geometry creator call the kind stands for: <<operation, filter or kind>>
StatedCall(kind) ==
    CASE kind = "Background" -> <<"createBackground", "Background">>
      [] kind \in {"Areas", "Lines", "Buildings"} -> <<"createObjects", kind>>
      [] kind = "Labels" -> <<"createTextElements", "Labels">>
      [] kind = "Pois" -> <<"preparePois", "Pois">>
      [] OTHER -> <<>>

\* the kinds the step recorded as loaded on tile t
NewKinds(t) ==
    tiles'[t].m_geometryKindsLoaded
        \ (IF tiles'[t].captures > tiles[t].captures
           THEN {}
           ELSE tiles[t].m_geometryKindsLoaded)

\* C31: an update() that materializes kinds calls, for each of them, the
\* geometry creator operation the kind stands for (Background: createBackground;
\* Areas, Lines, Buildings: createObjects with the kind's filter; Labels:
\* createTextElements; Pois: preparePois) and, createBackground apart, nothing
\* else; so the phase [Background] builds a background for the tile.
C31_MaterializeStep ==
    \A t \in Tiles :
        (UpdateStep(t) /\ tiles'[t].ret) =>
            /\ \A kind \in NewKinds(t) :
                  StatedCall(kind) # <<>> =>
                      \E e \in Range(NewCalls(t)) : <<e[1], e[2]>> = StatedCall(kind)
            /\ \A e \in Range(NewCalls(t)) :
                  \/ e[1] = "createBackground"
                  \/ \E kind \in NewKinds(t) : <<e[1], e[2]>> = StatedCall(kind)

C31_KindCallsItsCapability == [][C31_MaterializeStep]_vars

----------------------------------------------------------------------------
(* updateToPhase(), checked under Spec *)

\* the step is an updateToPhase() call on the loader of tile t
UpdateToPhaseStep(t) == frame'.op = "updateToPhase" /\ frame'.tile = t

\* the step materialized at least one phase on tile t
PhaseMaterialized(t) ==
    IF tiles'[t].captures > tiles[t].captures
    THEN currentPhase(tiles'[t]) > 0
    ELSE currentPhase(tiles'[t]) > currentPhase(tiles[t])

\* C32: updateToPhase(n) on a cacheable loader that holds a DecodedTile and has
\* cursor c leaves the cursor at max(c, min(n, N)) and returns true exactly when
\* the call materialized at least one phase, for every n; on a loader without
\* data it changes nothing and returns false.
C32_UpdateToPhaseStep ==
    \A t \in Tiles :
        (UpdateToPhaseStep(t) /\ tiles[t].cacheable) =>
            IF HoldsData(tiles[t])
            THEN /\ currentPhase(tiles'[t]) =
                        Max({currentPhase(tiles[t]), Min({frame'.arg, numberOfPhases})})
                 /\ tiles'[t].ret <=> PhaseMaterialized(t)
            ELSE /\ LoaderState(tiles'[t]) = LoaderState(tiles[t])
                 /\ ~tiles'[t].ret

C32_UpdateToPhaseReachesTarget == [][C32_UpdateToPhaseStep]_vars

----------------------------------------------------------------------------
(* The render orders a bias group reserves, checked under SpecStyle *)

\* the style at i is the first member of its bias group in document order and
\* declares a bias range [min, max] with min <= max
FirstMemberDeclares(i) ==
    /\ evaluator.theme[i].renderOrderBiasGroup # <<>>
    /\ evaluator.theme[i].renderOrderBiasRange # <<>>
    /\ evaluator.theme[i].renderOrderBiasRange[1] <= evaluator.theme[i].renderOrderBiasRange[2]
    /\ \A j \in 1..(i - 1) :
          evaluator.theme[j].renderOrderBiasGroup # evaluator.theme[i].renderOrderBiasGroup
    /\ evaluator.theme[i].renderOrderBiasGroup[1] \in DOMAIN evaluator.w.m_renderOrderBiasGroups

\* the lowest and the highest render order the group of the style at i reserves
ReservedMin(i) == GroupOrder(i) + evaluator.theme[i].renderOrderBiasRange[1]

ReservedMax(i) == GroupOrder(i) + evaluator.theme[i].renderOrderBiasRange[2]

\* C33: when the first member of a bias group declares the range [min, max]
\* with min <= max, no value (group order + b) with b in [min, max] is the
\* automatic render order of a leaf outside the group; the automatic orders of
\* the leaves before the member are below group order + min and those of the
\* leaves after it are above group order + max.
C33_ReservedOrdersAreFree ==
    evaluator.op \in {"new", "getMatchingTechniques"} /\ evaluator.w.raised = "" =>
        \A i \in 1..Len(evaluator.w.styleSet) :
            FirstMemberDeclares(i) =>
                \A l \in 1..Len(evaluator.w.styleSet) :
                    (IsLeaf(l) /\ AutoOrder(l) # <<>>) =>
                        /\ ~SameBiasGroup(i, l) =>
                              AutoOrder(l)[1] \notin ReservedMin(i)..ReservedMax(i)
                        /\ l < i => AutoOrder(l)[1] < ReservedMin(i)
                        /\ l > i => AutoOrder(l)[1] > ReservedMax(i)

\* a group whose first member declares a range with a negative bound, between
\* a leaf and a leaf that both have automatic orders
C33_Witness ==
    /\ Constructed
    /\ \E i, k, l \in 1..Len(evaluator.w.styleSet) :
          /\ FirstMemberDeclares(i)
          /\ evaluator.theme[i].renderOrderBiasRange[1] < 0
          /\ k < i /\ i < l
          /\ IsLeaf(k) /\ AutoOrder(k) # <<>> /\ ~SameBiasGroup(i, k)
          /\ IsLeaf(l) /\ AutoOrder(l) # <<>> /\ ~SameBiasGroup(i, l)
          /\ AutoOrder(k)[1] = ReservedMin(i) - 1
          /\ AutoOrder(l)[1] > ReservedMax(i)

----------------------------------------------------------------------------
(* The frame loop comes to an end, checked under SpecFrames *)

\* every loader has all its geometry and updateTiles() asked for no more frame
AllLoadedNoFrameRequested ==
    /\ \A t \in Tiles : allGeometryLoaded(tiles[t])
    /\ frame.op = "updateTiles"
    /\ frame.requests = 0

\* C34: over the fixed list of all tiles, each with a loader and each of a
\* data source that is not cacheable or holding a DecodedTile, running
\* updateTiles() for every requested frame, in static or dynamic mode, leads to
\* every loader having allGeometryLoaded with no further frame requested, and
\* with more tiles than the cap of a frame no tile is left behind.
C34_FramesLoadEveryTile ==
    <>[]AllLoadedNoFrameRequested

C34_Witness ==
    /\ AllLoadedNoFrameRequested
    /\ NumTiles > m_maximumUpdatesPerFrame
    /\ \A t \in Tiles : tiles[t].cacheable /\ tiles[t].delivered = 1 /\ isFinished(tiles[t])

----------------------------------------------------------------------------
(* A new DecodedTile on a finished tile, checked under SpecFrames *)

\* the loader of the cacheable tile t has finished an earlier delivery, its
\* cursor is at N, and the tile holds a DecodedTile the loader has not captured
NewDeliveryOnFinished(t) ==
    /\ tiles[t].cacheable
    /\ isFinished(tiles[t])
    /\ currentPhase(tiles[t]) = numberOfPhases
    /\ tiles[t].decodedTile # Undefined
    /\ tiles[t].captures < tiles[t].delivered

\* the loader of tile t has captured the latest delivery and built it to the
\* last phase
DeliveryBuilt(t) ==
    /\ tiles[t].captures = tiles[t].delivered
    /\ tiles[t].decodedTile = Undefined
    /\ allGeometryLoaded(tiles[t])

\* C35: whenever a new DecodedTile is placed on a cacheable tile whose loader
\* has finished an earlier delivery, the updateTiles() frames that follow, in
\* static or dynamic mode over a list that keeps the tile, lead to the new
\* delivery being captured and built to the last phase.
C35_NewDeliveryIsBuilt ==
    \A t \in 1..NumTiles : NewDeliveryOnFinished(t) ~> DeliveryBuilt(t)

----------------------------------------------------------------------------
(* Deliveries between update() and the deferred step, checked under SpecSimple *)

\* C36: a DecodedTile assigned to the tile after update() has scheduled the
\* deferred build of an earlier delivery and before that deferred step runs is
\* still on the tile after the step: the step does not remove it.
C36_TimeoutWithNewDelivery ==
    \A t \in SimpleTiles :
        (/\ TimeoutStep(t)
         /\ simple[t].decodedTile # Undefined
         /\ simple[t].decodedTile # frame'.arg) =>
            simple'[t].decodedTile = simple[t].decodedTile

C36_DeferredStepKeepsNewDelivery == [][C36_TimeoutWithNewDelivery]_vars

----------------------------------------------------------------------------
(* Invariants of the PhasedTileGeometryLoader, checked under Spec *)

\* C38: a loader whose allGeometryLoaded is true holds no DecodedTile
\* reference, whether the tile is cacheable or not and whatever the phase list.
C38_LoadedHoldsNoData ==
    \A t \in Tiles : allGeometryLoaded(tiles[t]) => tiles[t].m_decodedTile = Undefined


\* the kinds of the phases before the cursor of tile t
KindsBeforeCursor(s) == PhaseKinds(currentPhase(s))

\* C39, in every state: 0 <= currentPhase <= N and the loaded kinds are among
\* the kinds of the phases before the cursor.
C39_CursorAndKindsInRange ==
    \A t \in Tiles :
        /\ currentPhase(tiles[t]) \in 0..numberOfPhases
        /\ tiles[t].m_geometryKindsLoaded \subseteq KindsBeforeCursor(tiles[t])

\* C39, in every step: the cursor does not decrease and the loaded kinds do not
\* shrink, except in a step that captures a new DecodedTile; the capture puts
\* the cursor to 0 and empties the set, so that the step ends with the kinds of
\* the phases it went through since, and an update() ends at phase 1 at most.
C39_CursorStep ==
    \A t \in Tiles :
        IF tiles'[t].captures > tiles[t].captures
        THEN /\ tiles'[t].m_geometryKindsLoaded =
                    IF tiles[t].cacheable THEN KindsBeforeCursor(tiles'[t]) ELSE {}
             /\ (UpdateStep(t) /\ tiles[t].cacheable) =>
                    currentPhase(tiles'[t]) = Min({1, numberOfPhases})
        ELSE /\ currentPhase(tiles'[t]) >= currentPhase(tiles[t])
             /\ tiles[t].m_geometryKindsLoaded \subseteq tiles'[t].m_geometryKindsLoaded

----------------------------------------------------------------------------
(* The techniques table, checked under SpecStyle *)

\* the constructor has run, whether or not it or a later call has raised
Usable(e) == e.op \in {"new", "getMatchingTechniques"}

\* the leaves of the tree whose Technique is in the table
LeavesInTable ==
    {i \in 1..Len(evaluator.w.styleSet) : evaluator.w.styleSet[i]._index # <<>>}

\* C40, in every state: techniques[i]._index = i, every entry of the table
\* belongs to exactly one technique leaf and every such leaf has one entry, and
\* every Technique getMatchingTechniques() returned is an entry of the table.
C40_TableIsIndexed ==
    Usable(evaluator) =>
        /\ \A k \in 1..Len(evaluator.w.m_techniques) :
              /\ evaluator.w.objects[evaluator.w.m_techniques[k]]["_index"] = JsNumber(k - 1)
              /\ Cardinality({i \in LeavesInTable :
                                 evaluator.w.styleSet[i]._index = <<k - 1>>}) = 1
        /\ \A i \in LeavesInTable :
              /\ IsLeaf(i)
              /\ evaluator.w.styleSet[i]._index[1] \in 0..(Len(evaluator.w.m_techniques) - 1)
              /\ BuiltTechnique(i)["name"] = JsString(evaluator.w.styleSet[i].technique[1])
        /\ Len(evaluator.w.objects) = Len(evaluator.w.m_techniques)
        /\ \A k \in 1..Len(evaluator.w.result) :
              /\ evaluator.w.result[k] # <<>>
              /\ evaluator.w.result[k][1] \in Range(evaluator.w.m_techniques)

\* C40, in every getMatchingTechniques() call: the entries the table had keep
\* their position and are the same unchanged objects, and a leaf that had an
\* entry keeps it.
C40_TableStep ==
    (Usable(evaluator) /\ Usable(evaluator')) =>
        /\ Len(evaluator'.w.m_techniques) >= Len(evaluator.w.m_techniques)
        /\ \A k \in 1..Len(evaluator.w.m_techniques) :
              /\ evaluator'.w.m_techniques[k] = evaluator.w.m_techniques[k]
              /\ evaluator'.w.objects[evaluator.w.m_techniques[k]]
                    = evaluator.w.objects[evaluator.w.m_techniques[k]]
        /\ \A i \in LeavesInTable :
              evaluator'.w.styleSet[i]._index = evaluator.w.styleSet[i]._index

C40_TableIsAppendOnly == []C40_TableIsIndexed /\ [][C40_TableStep]_vars

\* a second call returned a Technique the first call had entered in the table
\* and entered a new one behind it
C40_Witness ==
    /\ Returned
    /\ Len(evaluator.w.m_techniques) >= 2
    /\ \E k \in 1..Len(evaluator.w.result) :
          evaluator.w.result[k] = <<evaluator.w.m_techniques[1]>>
    /\ \E k \in 1..Len(evaluator.w.result) :
          evaluator.w.result[k] = <<evaluator.w.m_techniques[Len(evaluator.w.m_techniques)]>>
    /\ \E env \in DOMAIN evaluator.returned :
          /\ evaluator.returned[env] # <<>>
          /\ \A k \in 1..Len(evaluator.returned[env]) :
                evaluator.returned[env][k] # <<evaluator.w.m_techniques[Len(evaluator.w.m_techniques)]>>

----------------------------------------------------------------------------
(* Two evaluators over one StyleSet, checked under SpecShared *)

\* the second instance has returned from getMatchingTechniques()
SecondReturned ==
    /\ evaluator.op = "getMatchingTechniques"
    /\ evaluator.by = 2
    /\ evaluator.second.raised = ""

\* what an evaluator constructed alone over the StyleSet as it was written
\* returns for the environment of the last call
Alone ==
    getMatchingTechniques(
        constructor(NewStyleSetEvaluator(evaluator.theme, evaluator.second.validate)),
        evaluator.env)

\* a Technique without the index of its table entry
Described(technique) ==
    [property \in DOMAIN technique \ {"_index"} |-> technique[property]]

\* C37: every element of the array the second instance returns is a Technique
\* of its own table, and the array describes the Techniques an evaluator that
\* is alone over the StyleSet returns for the same environment.
C37_SecondInstanceIsIsolated ==
    SecondReturned =>
        /\ \A k \in 1..Len(evaluator.second.result) :
              /\ evaluator.second.result[k] # <<>>
              /\ evaluator.second.result[k][1] \in Range(evaluator.second.m_techniques)
        /\ Len(evaluator.second.result) = Len(Alone.result)
        /\ \A k \in 1..Len(evaluator.second.result) :
              evaluator.second.result[k] # <<>> =>
                  Described(evaluator.second.objects[evaluator.second.result[k][1]])
                      = Described(Alone.objects[Alone.result[k][1]])

====
